---------------------------- MODULE Spec2Model ----------------------------
(***************************************************************************)
(* Model of the request pipeline of RiotAPIClient                          *)
(* (backend/src/shared/riot_client.py): circuit breaker, rate limiter,     *)
(* retry loop, 429 / 403 / 404 handling and credential cache, of the       *)
(* retrying transport adapter mounted on its session, and of the client    *)
(* operations built on _make_request; of the data fetcher's handler        *)
(* (backend/src/lambdas/data_fetcher.py) that calls the client; and of the *)
(* statistics computed from the fetched matches (backend/src/shared/       *)
(* utils.py): process_match_statistics, calculate_kda, calculate_win_rate. *)
(*                                                                         *)
(* Time.  One tick is 0.2 s (TicksPerSecond ticks per second), so that     *)
(* 1.2 s, 1 s and the sub-second jitter of the backoff are whole numbers.  *)
(* The code compares time stamps only with time.time(), so every time      *)
(* stamp is kept relative to the present instant: now is 0, a past stamp   *)
(* is negative, a future one positive, and when d ticks pass every stamp   *)
(* moves back by d.  A past stamp stops moving once it is older than       *)
(* anything the code (or a claim) can tell apart.  The value 0 the         *)
(* constructor gives to circuit_open_until is Unset.                       *)
(***************************************************************************)
EXTENDS Integers, Sequences, FiniteSets, TLC

VARIABLES
    last_request_time,   \* self.last_request_time
    failure_count,       \* self.failure_count
    circuit_open_until,  \* self.circuit_open_until
    static_api_key,      \* self._static_api_key is set (TRUE) or None (FALSE)
    cached_api_key,      \* self._cached_api_key: 0 is None, n > 0 a key version
    api_key_cache_time,  \* self._api_key_cache_time
    secret_version,      \* key version currently held by the secret store
    pc,                  \* position inside _make_request
    attempt,             \* loop variable of _make_request
    header_key,          \* headers['X-Riot-Token']
    result,              \* how the last finished _make_request ended
    dispatched,          \* history: session.get calls of the current call
    last_dispatch,       \* history: time the latest HTTP request was sent
    gap,                 \* history: time between the latest two HTTP requests
    last_outcome,        \* history: outcome of the call's latest session.get
    consec,              \* history: counted failures since the last 200
    fifth_at,            \* history: time of the 5th consecutive failure
    opened_at,           \* history: time the circuit was last opened, until a call is admitted
    entry,               \* history: what held when the current call began
    slept,               \* history: sleep of the latest response handling
    last_header,         \* history: Retry-After header of the latest 429
    refreshes,           \* history: forced refreshes (line 148) of the call
    store_calls,         \* history: calls of the secret store during the call
    only429,             \* history: every upstream answer so far was a 429
    retries_left,        \* retries the adapter has left for this session.get
    sent,                \* history: HTTP requests the current call has sent
    last_answer,         \* history: the upstream's latest answer
    op,                  \* the client operation a caller runs
    op_pc,               \* position inside the operation
    op_result,           \* "returned" or the type of the error it raised
    region_ok,           \* the region is a key of REGION_TO_REGIONAL
    page_len,            \* len(match_ids) of the current page
    next_id,             \* index of the loop over match_ids
    all_matches,         \* len(all_matches)
    call_failed,         \* history: a _make_request of the operation raised
    upstream,            \* "up" or "down": how the upstream answers for now
    page_starts,         \* history: offsets of the operation's page requests
    page_repeated,       \* history: an offset was asked for a second time
    detail_ids,          \* history: positions of the ids whose details were asked
    detail_repeated,     \* history: one of them was asked for a second time
    match_set,           \* history: positions of the matches in all_matches
    h_pc,                \* position inside the data fetcher's handler
    h_status,            \* statusCode of the handler's latest response
    h_error,             \* "error" of the handler's latest response body
    job_status,          \* status of the request's job in the jobs table
    request,             \* the payload of the handler's latest invocation
    matches,             \* the matches given to process_match_statistics
    stats_pc,            \* "ready" until process_match_statistics has run
    stats_runs,          \* history: how often it has run on the list
    stats_error,         \* the exception it raised, or "none"
    report,              \* <<>> or <<the ProcessedStats it returned>>
    calc_args,           \* arguments of calculate_kda and calculate_win_rate
    calc_done,           \* which of the two has been called
    kda,                 \* what calculate_kda returned or raised
    win_rate,            \* what calculate_win_rate returned or raised
    kda_values,          \* [data.avg_kda for data in monthly_data], in hundredths
    trend_done,          \* which of the two functions of them has been called
    improvement_trend,   \* result of calculate_improvement_trend, in thousandths
    consistency_score,   \* result of calculate_consistency_score, in tenths
    h_body,              \* "status" and "match_count" of the latest response body
    bg_pc,               \* the handler's asynchronous invocation of itself
    bg_matches,          \* <<>> or <<number of matches that invocation fetched>>
    s3_puts,             \* put_object calls for the request's job so far
    progress,            \* "progress" of the request's job in the jobs table
    lowered,             \* history: an update stored a smaller progress
    job_puuid,           \* summoner.puuid of the request's job, 0 before the lookup
    bucket,              \* keys under raw-matches/: <<summoner_id, timestamp>>
    proc_queued,         \* the background's invocation of the data processor
    p_pc,                \* data processor: position in its handler
    p_status,            \* data processor: statusCode of its latest response
    p_summoner,          \* data processor: summoner_id of the run, 0 before
    p_writes,            \* history: what the run wrote, in order
    stats_of,            \* <<>> or <<summoner_id of the stored statistics>>
    t_pc,                \* two threads share the client: each one's position
    t_attempt,           \* each thread's loop variable attempt
    t_count,             \* each thread's operand of 'self.failure_count += 1'
    t_wake,              \* ticks until each thread's sleep or answer ends
    handled,             \* history: failures handled since the last reset
    opened_after         \* history: <<>> or <<handled when the circuit opened>>

vars == <<last_request_time, failure_count, circuit_open_until,
          static_api_key, cached_api_key, api_key_cache_time, secret_version,
          pc, attempt, header_key, result, dispatched, last_dispatch,
          gap, last_outcome, consec, fifth_at, opened_at, entry, slept,
          last_header, refreshes, store_calls,
          only429, retries_left, sent, last_answer,
          op, op_pc, op_result, region_ok,
          page_len, next_id, all_matches, call_failed, upstream,
          page_starts, page_repeated, detail_ids, detail_repeated, match_set,
          h_pc, h_status, h_error, job_status, request,
          matches, stats_pc, stats_runs, stats_error, report,
          calc_args, calc_done, kda, win_rate,
          kda_values, trend_done, improvement_trend, consistency_score,
          h_body, bg_pc, bg_matches, s3_puts,
          progress, lowered, job_puuid, bucket, proc_queued,
          p_pc, p_status, p_summoner, p_writes, stats_of,
          t_pc, t_attempt, t_count, t_wake, handled, opened_after>>

pipelineVars == <<last_request_time, failure_count, circuit_open_until,
                  static_api_key, cached_api_key, api_key_cache_time,
                  secret_version, pc, attempt, header_key, result, dispatched,
                  last_dispatch, gap, last_outcome, consec, fifth_at,
                  opened_at, entry, slept, last_header, refreshes, store_calls,
                  only429,
                  retries_left, sent, last_answer>>

(* Which pages, details and matches an operation has asked for and got.    *)
pageHist == <<page_starts, page_repeated, detail_ids, detail_repeated,
              match_set>>

opVars == <<op, op_pc, op_result, region_ok, page_len, next_id, all_matches,
            call_failed, upstream, pageHist>>

hVars == <<h_pc, h_status, h_error, job_status, request>>

(* What the callers of the client hold.                                    *)
statVars == <<matches, stats_pc, stats_runs, stats_error, report>>

calcVars == <<calc_args, calc_done, kda, win_rate>>

trendVars == <<kda_values, trend_done, improvement_trend, consistency_score>>

(* The job's progress, the raw bucket and the data processor.              *)
jobVars == <<progress, lowered, job_puuid, bucket, proc_queued>>

procVars == <<p_pc, p_status, p_summoner, p_writes, stats_of>>

bgVars == <<h_body, bg_pc, bg_matches, s3_puts, jobVars, procVars>>

sharedVars == <<t_pc, t_attempt, t_count, t_wake, handled, opened_after>>

(* What one caller at a time holds.                                        *)
soloVars == <<hVars, statVars, calcVars, trendVars, bgVars>>

callerVars == <<soloVars, sharedVars>>

(* Everything outside the request pipeline.                                *)
outerVars == <<opVars, callerVars>>

---------------------------------------------------------------------------
(* Resolution of the clock and the program's constants.                    *)

TicksPerSecond == 5

now == 0                                     \* time.time()

MinRequestInterval == 6                      \* 1.2 s

max_failures == 5

circuit_timeout == 60 * TicksPerSecond

api_key_cache_ttl == 300 * TicksPerSecond

max_retries == 3

DefaultRetryAfter == 60

retry_total == 3     \* Retry(total=3, ...)

StaticKey == 100     \* the key passed to the constructor

Unset == -1          \* circuit_open_until = 0 in the code

(* Bounds of the model.                                                    *)

MaxKeyVersion == 2   \* the secret store rotates the key up to this version

RequestHorizon == 6  \* request times older than this are not told apart

CircuitHorizon == 300   \* nor are circuit openings older than this

SentHorizon == 4      \* nor are counts of requests sent above this

(* Inputs.                                                                 *)

(* What the upstream does with one HTTP request: a status ("5xx" is 500,  *)
(* 502, 503 or 504; "4xx" any other error status; "other" a status that   *)
(* is neither 200 nor an error) or a network error.                        *)
Answers == {"200", "404", "403", "429", "5xx", "4xx", "other", "neterr"}

RetryAfterHeaders == {-1, 1}   \* -1: header absent; otherwise seconds

IdleTimes == {0, circuit_timeout - 1, circuit_timeout}

Latencies == {0, 1}            \* ticks the upstream takes to answer

AdapterBackoffs == {0, TicksPerSecond}   \* backoff of the adapter's retry

Jitters == {0, TicksPerSecond - 1}   \* time.time() % 1, its extremes

---------------------------------------------------------------------------
(* Helpers.                                                                *)

Max(a, b) == IF a >= b THEN a ELSE b

Min(a, b) == IF a <= b THEN a ELSE b

Pow2(n) == IF n = 0 THEN 1 ELSE IF n = 1 THEN 2 ELSE IF n = 2 THEN 4 ELSE 8

(* The past time stamp t, seen d ticks later.                              *)
Past(t, d, horizon) == Max(t - d, 0 - horizon)

(* A history time stamp is <<>> until it is set, then <<t>>.               *)
NoTime == <<>>

At(t) == <<t>>

PastAt(s, d, horizon) == IF s = NoTime THEN NoTime ELSE At(Past(s[1], d, horizon))

(* circuit_open_until seen d ticks later: once reached it stays "set".     *)
Later(c, d) == IF c = Unset THEN Unset ELSE Max(c - d, 0)

(* RiotAPIClient.__init__: every time stamp that starts at 0 lies far in   *)
(* the past of the clock.                                                  *)
InitPipeline ==
    /\ last_request_time = 0 - MinRequestInterval
    /\ failure_count = 0
    /\ circuit_open_until = Unset
    /\ static_api_key \in BOOLEAN
    /\ cached_api_key = 0
    /\ api_key_cache_time = 0 - api_key_cache_ttl
    /\ secret_version = 1
    /\ pc = "idle"
    /\ attempt = 0
    /\ header_key = 0
    /\ result = "none"
    /\ dispatched = 0
    /\ last_dispatch = NoTime
    /\ gap = -1
    /\ last_outcome = "none"
    /\ consec = 0
    /\ fifth_at = NoTime
    /\ opened_at = NoTime
    /\ entry = [in_cooldown |-> FALSE, after_cooldown |-> FALSE]
    /\ slept = 0
    /\ last_header = -1
    /\ refreshes = 0
    /\ store_calls = 0
    /\ only429 = TRUE
    /\ retries_left = 0
    /\ sent = 0
    /\ last_answer = "none"

(* No operation has been called yet.                                       *)
InitOps ==
    /\ op = "none"
    /\ op_pc = "idle"
    /\ op_result = "none"
    /\ region_ok = TRUE
    /\ page_len = 0
    /\ next_id = 0
    /\ all_matches = 0
    /\ call_failed = FALSE
    /\ upstream = "up"
    /\ page_starts = {}
    /\ page_repeated = FALSE
    /\ detail_ids = {}
    /\ detail_repeated = FALSE
    /\ match_set = {}

(* The handler has not been invoked and the jobs table holds no job.       *)
InitHandler ==
    /\ h_pc = "idle"
    /\ h_status = 0
    /\ h_error = "none"
    /\ job_status = "none"
    /\ request = [well_formed |-> TRUE, region_ok |-> TRUE]

(* process_match_statistics has not been called.                           *)
InitStats ==
    /\ matches = <<>>
    /\ stats_pc = "ready"
    /\ stats_runs = 0
    /\ stats_error = "none"
    /\ report = <<>>

(* Neither calculate_kda nor calculate_win_rate has been called.           *)
InitCalc ==
    /\ calc_args = [kills |-> 0, deaths |-> 0, assists |-> 0,
                    wins |-> 0, total_games |-> 0]
    /\ calc_done = {}
    /\ kda = <<>>
    /\ win_rate = <<>>

(* Neither function of the monthly KDA values has been called.             *)
InitTrend ==
    /\ kda_values = <<>>
    /\ trend_done = {}
    /\ improvement_trend = 0
    /\ consistency_score = 0

(* No response yet, no background invocation, nothing in the raw bucket.   *)
InitBackground ==
    /\ h_body = [status |-> "none", match_count |-> <<>>]
    /\ bg_pc = "none"
    /\ bg_matches = <<>>
    /\ s3_puts = 0
    /\ progress = 0
    /\ lowered = FALSE
    /\ job_puuid = 0
    /\ bucket = {}
    /\ proc_queued = FALSE
    /\ p_pc = "idle"
    /\ p_status = 0
    /\ p_summoner = 0
    /\ p_writes = <<>>
    /\ stats_of = <<>>

Callers == {1, 2}

(* Neither thread has called _make_request.                                *)
InitShared ==
    /\ t_pc = [c \in Callers |-> "start"]
    /\ t_attempt = [c \in Callers |-> 0]
    /\ t_count = [c \in Callers |-> 0]
    /\ t_wake = [c \in Callers |-> 0]
    /\ handled = 0
    /\ opened_after = <<>>

InitCallers ==
    /\ InitHandler /\ InitStats /\ InitCalc /\ InitTrend /\ InitBackground
    /\ InitShared

Init == InitPipeline /\ InitOps /\ InitCallers

(* d ticks pass and nothing else touches the time stamps.                  *)
Elapse(d) ==
    /\ last_request_time' = Past(last_request_time, d, MinRequestInterval)
    /\ circuit_open_until' = Later(circuit_open_until, d)
    /\ api_key_cache_time' = Past(api_key_cache_time, d, api_key_cache_ttl)

ElapseHistory(d) ==
    /\ last_dispatch' = PastAt(last_dispatch, d, RequestHorizon)
    /\ fifth_at' = PastAt(fifth_at, d, CircuitHorizon)
    /\ opened_at' = PastAt(opened_at, d, CircuitHorizon)

(* _refresh_api_key with cache (c, t): the store answers (storeOk) or      *)
(* raises AWSClientError, in which case a cached key is reused and a       *)
(* missing one raises RiotAPIError.                                        *)
_refresh_api_key(c, t, storeOk) ==
    IF storeOk
    THEN [cached |-> secret_version, time |-> now, key |-> secret_version,
          raised |-> FALSE, calls |-> 1]
    ELSE IF c # 0
         THEN [cached |-> c, time |-> t, key |-> c, raised |-> FALSE, calls |-> 1]
         ELSE [cached |-> c, time |-> t, key |-> 0, raised |-> TRUE, calls |-> 1]

(* An accessor that asks the store whenever there is no static key.        *)
api_key_Uncached(c, t, storeOk) ==
    IF static_api_key
    THEN [cached |-> c, time |-> t, key |-> StaticKey, raised |-> FALSE,
          calls |-> 0]
    ELSE _refresh_api_key(c, t, storeOk)

(* The api_key property; calls: how often it called the store.             *)
api_key(c, t, storeOk) ==
    IF static_api_key
    THEN [cached |-> c, time |-> t, key |-> StaticKey, raised |-> FALSE,
          calls |-> 0]
    ELSE IF c # 0 /\ now - t < api_key_cache_ttl
         THEN [cached |-> c, time |-> t, key |-> c, raised |-> FALSE,
               calls |-> 0]
         ELSE _refresh_api_key(c, t, storeOk)

(* The secret store rotates the key.                                       *)
RotateKey ==
    /\ pc = "idle"
    /\ ~static_api_key
    /\ secret_version < MaxKeyVersion
    /\ secret_version' = secret_version + 1
    /\ UNCHANGED <<last_request_time, failure_count, circuit_open_until,
                   static_api_key, cached_api_key, api_key_cache_time, pc,
                   attempt, header_key, result, dispatched, last_dispatch,
                   gap, last_outcome, consec, fifth_at, opened_at, entry,
                   slept, last_header, refreshes, store_calls,
                   only429, retries_left, sent,
                   last_answer>>

(* A caller enters _make_request, d ticks after the previous call ended.   *)
_make_request(d) ==
    /\ pc = "idle"
    /\ pc' = "check"
    /\ Elapse(d)
    /\ ElapseHistory(d)
    /\ attempt' = 0
    /\ result' = "none"
    /\ dispatched' = 0
    /\ refreshes' = 0
    /\ store_calls' = 0
    /\ slept' = 0
    /\ entry' = [in_cooldown    |-> fifth_at # NoTime /\ now < (fifth_at[1] - d) + 60 * TicksPerSecond,
                 after_cooldown |-> opened_at # NoTime /\ now >= (opened_at[1] - d) + 60 * TicksPerSecond]
    /\ last_outcome' = "none"
    /\ sent' = 0
    /\ last_answer' = "none"
    /\ UNCHANGED <<failure_count, static_api_key, cached_api_key,
                   secret_version, header_key, gap, consec, last_header,
                   only429, retries_left>>

(* _check_circuit_breaker, then the headers are built from api_key.        *)
CircuitIsOpen_ByCount == failure_count >= max_failures

CircuitIsOpen == circuit_open_until # Unset /\ circuit_open_until > now

_check_circuit_breaker(storeOk) ==
    /\ pc = "check"
    /\ IF CircuitIsOpen
       THEN /\ pc' = "idle"
            /\ result' = "CircuitOpen"
            /\ UNCHANGED <<failure_count, circuit_open_until, cached_api_key,
                           api_key_cache_time, header_key, store_calls>>
       ELSE LET k == api_key(cached_api_key, api_key_cache_time, storeOk)
            IN  /\ store_calls' = store_calls + k.calls
                /\ IF circuit_open_until # Unset
                   THEN failure_count' = 0 /\ circuit_open_until' = Unset
                   ELSE UNCHANGED <<failure_count, circuit_open_until>>
                /\ cached_api_key' = k.cached
                /\ api_key_cache_time' = k.time
                /\ IF k.raised
                   THEN pc' = "idle" /\ result' = "KeyUnavailable" /\ UNCHANGED header_key
                   ELSE pc' = "attempt" /\ result' = "none" /\ header_key' = k.key
    /\ opened_at' = IF CircuitIsOpen THEN opened_at ELSE NoTime
    /\ UNCHANGED <<last_request_time, static_api_key, secret_version, attempt,
                   dispatched, last_dispatch, gap, last_outcome, consec,
                   fifth_at, entry, slept, last_header, refreshes, only429,
                   retries_left, sent, last_answer>>

(* Top of the loop body: the rate limiter sleeps, session.get is called.   *)
RateLimitSleep ==
    IF now - last_request_time < MinRequestInterval
    THEN MinRequestInterval - (now - last_request_time)
    ELSE 0

Dispatch ==
    /\ pc = "attempt"
    /\ Elapse(RateLimitSleep)
    /\ fifth_at' = PastAt(fifth_at, RateLimitSleep, CircuitHorizon)
    /\ opened_at' = PastAt(opened_at, RateLimitSleep, CircuitHorizon)
    /\ gap' = IF last_dispatch = NoTime THEN -1
              ELSE now - Past(last_dispatch[1], RateLimitSleep, RequestHorizon)
    /\ last_dispatch' = At(now)
    /\ dispatched' = dispatched + 1
    /\ sent' = Min(sent + 1, SentHorizon)
    /\ retries_left' = retry_total
    /\ pc' = "inflight"
    /\ UNCHANGED <<failure_count, static_api_key, cached_api_key,
                   secret_version, attempt, header_key, result, last_outcome,
                   consec, entry, slept, last_header, refreshes, store_calls,
                   only429,
                   last_answer>>

(* The loop goes to its next iteration; after the last one line 174 raises. *)
Continue ==
    IF attempt + 1 < max_retries
    THEN pc' = "attempt" /\ attempt' = attempt + 1 /\ result' = "none"
    ELSE pc' = "idle" /\ attempt' = attempt /\ result' = "MaxRetries"

Finish(r) == pc' = "idle" /\ attempt' = attempt /\ result' = r

(* _handle_rate_limit: the sleep for a 429 whose Retry-After header is h   *)
(* (60 s when the header is absent).                                       *)
retry_after(h) == (IF h = -1 THEN DefaultRetryAfter ELSE h) * TicksPerSecond

(* The exponential backoff of line 171, with jitter j.                     *)
wait_time(j) == Pow2(attempt) * TicksPerSecond + j

(* The loop re-raises on its last iteration without sleeping.              *)
LastAttempt == attempt = max_retries - 1

(* The time the loop body sleeps after session.get gave outcome o.         *)
SleepAfter(o, h, j) ==
    CASE o = "429" -> retry_after(h)
      [] o \in {"5xx", "4xx", "exc"} -> IF LastAttempt THEN 0 ELSE wait_time(j)
      [] OTHER -> 0

(* d ticks pass; the circuit breaker and the credential are not touched.   *)
NoFailure(d) ==
    /\ failure_count' = failure_count
    /\ circuit_open_until' = Later(circuit_open_until, d)
    /\ opened_at' = PastAt(opened_at, d, CircuitHorizon)
    /\ fifth_at' = PastAt(fifth_at, d, CircuitHorizon)

NoKeyChange(d) ==
    /\ api_key_cache_time' = Past(api_key_cache_time, d, api_key_cache_ttl)
    /\ UNCHANGED <<cached_api_key, header_key, refreshes, store_calls>>

(* except requests.exceptions.RequestException: lat ticks passed since the *)
(* dispatch, w ticks of backoff follow.                                    *)
Opens_OffByOne == failure_count + 1 > max_failures

Opens == failure_count + 1 >= max_failures

OnRequestException(lat, w) ==
    /\ failure_count' = failure_count + 1
    /\ circuit_open_until' = IF Opens THEN Later(now + circuit_timeout, w)
                             ELSE Later(circuit_open_until, lat + w)
    /\ opened_at' = IF Opens THEN At(Past(now, w, CircuitHorizon))
                    ELSE PastAt(opened_at, lat + w, CircuitHorizon)
    /\ consec' = IF consec > 5 THEN consec ELSE consec + 1
    /\ fifth_at' = IF consec + 1 = 5 THEN At(Past(now, w, CircuitHorizon))
                   ELSE PastAt(fifth_at, lat + w, CircuitHorizon)
    /\ NoKeyChange(lat + w)
    /\ IF LastAttempt
       THEN Finish("RequestFailed")
       ELSE pc' = "attempt" /\ attempt' = attempt + 1 /\ result' = "none"

(* status 429: _handle_rate_limit sleeps and raises RateLimitExceeded,     *)
(* which the loop swallows except on its last iteration.                   *)
On429(lat, w) ==
    /\ NoFailure(lat + w)
    /\ consec' = consec
    /\ NoKeyChange(lat + w)
    /\ IF LastAttempt
       THEN Finish("RateLimited")
       ELSE pc' = "attempt" /\ attempt' = attempt + 1 /\ result' = "none"

(* status 200.                                                             *)
On200_NoReset(lat, w) ==
    /\ NoFailure(lat)
    /\ consec' = 0
    /\ NoKeyChange(lat)
    /\ Finish("ok")

On200(lat, w) ==
    /\ failure_count' = 0
    /\ consec' = 0
    /\ circuit_open_until' = Later(circuit_open_until, lat)
    /\ opened_at' = PastAt(opened_at, lat, CircuitHorizon)
    /\ fifth_at' = PastAt(fifth_at, lat, CircuitHorizon)
    /\ NoKeyChange(lat)
    /\ Finish("ok")

(* status 404.                                                             *)
On404_Retried(lat, w) == OnRequestException(lat, w)

On404(lat, w) ==
    /\ NoFailure(lat)
    /\ consec' = consec
    /\ NoKeyChange(lat)
    /\ Finish("NotFound")

(* Any other status raise_for_status does not raise for.                   *)
OnOtherStatus(lat, w) ==
    /\ NoFailure(lat)
    /\ consec' = consec
    /\ NoKeyChange(lat)
    /\ Continue

(* status 403, lat ticks after the dispatch.                               *)
MayRefresh_Always == ~static_api_key

MayRefresh == ~static_api_key /\ attempt = 0

On403(lat, ok1, ok2) ==
    /\ NoFailure(lat)
    /\ consec' = consec
    /\ IF MayRefresh
       THEN LET r == _refresh_api_key(cached_api_key,
                                      Past(api_key_cache_time, lat, api_key_cache_ttl), ok1)
                k == api_key(r.cached, r.time, ok2)
            IN  /\ refreshes' = refreshes + 1
                /\ store_calls' = store_calls + r.calls
                                      + (IF r.raised THEN 0 ELSE k.calls)
                /\ IF r.raised \/ k.raised
                   THEN /\ Finish("KeyUnavailable")
                        /\ cached_api_key' = cached_api_key
                        /\ api_key_cache_time' = Past(api_key_cache_time, lat, api_key_cache_ttl)
                        /\ header_key' = header_key
                   ELSE /\ cached_api_key' = k.cached
                        /\ api_key_cache_time' = k.time
                        /\ header_key' = k.key
                        /\ Continue
       ELSE /\ Finish("Forbidden")
            /\ NoKeyChange(lat)

(* The transport adapter of the session: Retry(total=3, backoff_factor=1,  *)
(* status_forcelist=[429, 500, 502, 503, 504]).  An answer with a listed   *)
(* status, or a network error, is retried by the adapter itself while it   *)
(* has retries left; with none left session.get raises (RetryError or      *)
(* ConnectionError, both a RequestException).  Any other answer is the     *)
(* response session.get returns.                                           *)
status_forcelist == {"429", "5xx"}

Retried(u) == u \in status_forcelist \/ u = "neterr"

session_get(u) == IF Retried(u) THEN "exc" ELSE u

(* The adapter sleeps the Retry-After time of the answer, or else its      *)
(* backoff b, before it sends the request again.                           *)
adapter_sleep(u, h, b) == IF u = "429" /\ h # -1 THEN h * TicksPerSecond ELSE b

Resend(u, lat, h, b) ==
    /\ pc = "inflight"
    /\ Retried(u)
    /\ retries_left > 0
    /\ retries_left' = retries_left - 1
    /\ sent' = Min(sent + 1, SentHorizon)
    /\ last_answer' = u
    /\ only429' = (only429 /\ u = "429")
    /\ last_header' = IF u = "429" THEN h ELSE -1
    /\ LET d == lat + adapter_sleep(u, h, b)
       IN  /\ Elapse(d)
           /\ fifth_at' = PastAt(fifth_at, d, CircuitHorizon)
           /\ opened_at' = PastAt(opened_at, d, CircuitHorizon)
           /\ gap' = now - Past(now, d, RequestHorizon)
           /\ slept' = adapter_sleep(u, h, b)
    /\ last_dispatch' = At(now)
    /\ UNCHANGED <<failure_count, static_api_key, cached_api_key,
                   secret_version, pc, attempt, header_key, result,
                   dispatched, last_outcome, consec, entry, refreshes,
                   store_calls>>

(* session.get returns or raises lat ticks after the upstream was sent the *)
(* request it answers with u; the rest of the loop body handles the        *)
(* outcome.                                                                *)
Respond(u, lat, h, j, ok1, ok2) ==
    /\ pc = "inflight"
    /\ Retried(u) => retries_left = 0
    /\ last_answer' = u
    /\ only429' = (only429 /\ u = "429")
    /\ last_header' = IF u = "429" THEN h ELSE -1
    /\ LET o == session_get(u)
           w == SleepAfter(o, h, j)
       IN  /\ last_outcome' = o
           /\ slept' = w
           /\ last_request_time' = IF o = "exc"
                                   THEN Past(last_request_time, lat + w, MinRequestInterval)
                                   ELSE Past(now, w, MinRequestInterval)
           /\ last_dispatch' = PastAt(last_dispatch, lat + w, RequestHorizon)
           /\ CASE o = "429" -> On429(lat, w)
                [] o = "200" -> On200(lat, w)
                [] o = "404" -> On404(lat, w)
                [] o = "403" -> On403(lat, ok1, ok2)
                [] o \in {"5xx", "4xx", "exc"} -> OnRequestException(lat, w)
                [] o = "other" -> OnOtherStatus(lat, w)
    /\ UNCHANGED <<static_api_key, secret_version, dispatched, gap, entry,
                   retries_left, sent>>

(* The upstream answers a request after one of lats ticks.                 *)
AnswerStatus(lats) ==
    \E u \in {"200", "404", "other"}, lat \in lats :
        Respond(u, lat, -1, 0, TRUE, TRUE)

Answer403(lats) ==
    \E lat \in lats, ok1 \in BOOLEAN, ok2 \in BOOLEAN :
        Respond("403", lat, -1, 0, ok1, ok2)

AnswerFailure(lats) ==
    \E u \in {"429", "5xx", "4xx", "neterr"}, lat \in lats, h \in RetryAfterHeaders,
       j \in Jitters :
        /\ h # -1 => u = "429"
        /\ Respond(u, lat, h, j, TRUE, TRUE)

AnswerRetried(lats) ==
    \E u \in {"429", "5xx", "neterr"}, lat \in lats, h \in RetryAfterHeaders,
       b \in AdapterBackoffs :
        /\ h # -1 => u = "429"
        /\ Resend(u, lat, h, b)

(* A client built with a static key, any upstream behaviour.               *)
Next ==
    \/ (\E d \in IdleTimes : _make_request(d)) /\ UNCHANGED outerVars
    \/ (\E ok \in BOOLEAN : _check_circuit_breaker(ok)) /\ UNCHANGED outerVars
    \/ Dispatch /\ UNCHANGED outerVars
    \/ AnswerStatus(Latencies) /\ UNCHANGED outerVars
    \/ Answer403(Latencies) /\ UNCHANGED outerVars
    \/ AnswerFailure(Latencies) /\ UNCHANGED outerVars
    \/ AnswerRetried(Latencies) /\ UNCHANGED outerVars

InitStatic == Init /\ static_api_key = TRUE

Spec == InitStatic /\ [][Next]_vars

(* The same client with the scheduling the code has: a call that began     *)
(* runs on; every sleep and every session.get (timeout = 10) ends.         *)
LiveSpec ==
    /\ Spec
    /\ WF_vars((\E ok \in BOOLEAN : _check_circuit_breaker(ok)) /\ UNCHANGED outerVars)
    /\ WF_vars(Dispatch /\ UNCHANGED outerVars)
    /\ WF_vars((\/ \E u \in Answers, lat \in Latencies, h \in RetryAfterHeaders,
                      j \in Jitters : Respond(u, lat, h, j, TRUE, TRUE)
                 \/ AnswerRetried(Latencies))
                /\ UNCHANGED outerVars)

(* A client with or without a static key, talking to an upstream that      *)
(* answers without delay and a secret store that rotates the key.          *)
KeyIdleTimes == {0, api_key_cache_ttl - 1, api_key_cache_ttl}

NextKey ==
    \/ RotateKey /\ UNCHANGED outerVars
    \/ (\E d \in KeyIdleTimes : _make_request(d)) /\ UNCHANGED outerVars
    \/ (\E ok \in BOOLEAN : _check_circuit_breaker(ok)) /\ UNCHANGED outerVars
    \/ Dispatch /\ UNCHANGED outerVars
    \/ AnswerStatus({0}) /\ UNCHANGED outerVars
    \/ Answer403({0}) /\ UNCHANGED outerVars

SpecKey == Init /\ [][NextKey]_vars

---------------------------------------------------------------------------
(* The client operations. Each runs _make_request through the pipeline     *)
(* above and reacts to what it returned or raised.                         *)

batch_size == 100

match_limit == 1000

(* time.sleep(0.1) after a fetched match, in whole ticks. The rate limiter *)
(* of the next request sleeps until 1.2 s after the last response anyway.  *)
DetailPause == TicksPerSecond \div 10

PageLengths == {0, 1, batch_size}   \* len(match_ids) the upstream returns

OpIdleTimes == {0, circuit_timeout}

Upstreams == {"up", "down"}

(* The exception class _make_request raised, by its result.                *)
Raised(r) ==
    CASE r = "NotFound"    -> "SummonerNotFound"
      [] r = "RateLimited" -> "RateLimitExceeded"
      [] OTHER             -> "RiotAPIError"

(* self._make_request(url), with the upstream in state u from now on.      *)
StartCall(d, u) == _make_request(d) /\ upstream' = u

Begin(name, r) ==
    /\ pc = "idle"
    /\ op' = name
    /\ region_ok' = r
    /\ page_len' = 0
    /\ next_id' = 0
    /\ all_matches' = 0
    /\ call_failed' = FALSE
    /\ page_starts' = {}
    /\ page_repeated' = FALSE
    /\ detail_ids' = {}
    /\ detail_repeated' = FALSE
    /\ match_set' = {}

(* The operation raises e to its caller; failed: a network call failed.    *)
Raise(e, failed) ==
    /\ op_pc' = "idle"
    /\ op_result' = e
    /\ call_failed' = (call_failed \/ failed)
    /\ UNCHANGED <<op, region_ok, page_len, next_id, all_matches, upstream>>
    /\ UNCHANGED pipelineVars

Return ==
    /\ op_pc' = "idle"
    /\ op_result' = "returned"
    /\ UNCHANGED <<op, region_ok, upstream>>
    /\ UNCHANGED pipelineVars

(* An entry that makes its first request whatever the region is.           *)
Enter_NoRegionCheck(name, r, d, u, first) ==
    /\ Begin(name, r)
    /\ StartCall(d, u)
    /\ op_pc' = first
    /\ op_result' = "none"

(* Entry of an operation that first looks the region up and then makes     *)
(* its first request.                                                      *)
Enter(name, r, d, u, first) ==
    /\ Begin(name, r)
    /\ IF r
       THEN /\ StartCall(d, u)
            /\ op_pc' = first
            /\ op_result' = "none"
       ELSE /\ op_pc' = "idle"
            /\ op_result' = "RiotAPIError"
            /\ UNCHANGED <<upstream>>
            /\ UNCHANGED pipelineVars

get_summoner_by_riot_id(r, d, u) ==
    /\ op_pc = "idle"
    /\ Enter("get_summoner_by_riot_id", r, d, u, "account")

(* account_data arrived or the account request raised.                     *)
AccountReturned(u) ==
    /\ UNCHANGED pageHist
    /\ op = "get_summoner_by_riot_id"
    /\ op_pc = "account"
    /\ pc = "idle"
    /\ IF result = "ok"
       THEN /\ StartCall(0, u)
            /\ op_pc' = "summoner"
            /\ UNCHANGED <<op, op_result, region_ok, page_len, next_id,
                           all_matches, call_failed>>
       ELSE Raise(IF result = "NotFound" THEN "RiotAPIError" ELSE Raised(result), TRUE)

SummonerReturned ==
    /\ UNCHANGED pageHist
    /\ op = "get_summoner_by_riot_id"
    /\ op_pc = "summoner"
    /\ pc = "idle"
    /\ IF result = "ok"
       THEN Return /\ UNCHANGED <<page_len, next_id, all_matches, call_failed>>
       ELSE Raise(IF result = "NotFound" THEN "RiotAPIError" ELSE Raised(result), TRUE)

get_match_history(r, d, u) ==
    /\ op_pc = "idle"
    /\ Enter("get_match_history", r, d, u, "ids")

MatchHistoryReturned(n) ==
    /\ UNCHANGED pageHist
    /\ op = "get_match_history"
    /\ op_pc = "ids"
    /\ pc = "idle"
    /\ IF result = "ok"
       THEN Return /\ page_len' = n /\ UNCHANGED <<next_id, all_matches, call_failed>>
       ELSE Raise(Raised(result), TRUE)

get_match_details(r, d, u) ==
    /\ op_pc = "idle"
    /\ Enter("get_match_details", r, d, u, "detail")

MatchDetailsReturned ==
    /\ UNCHANGED pageHist
    /\ op = "get_match_details"
    /\ op_pc = "detail"
    /\ pc = "idle"
    /\ IF result = "ok"
       THEN Return /\ UNCHANGED <<page_len, next_id, all_matches, call_failed>>
       ELSE Raise(Raised(result), TRUE)

get_full_match_history_with_time(r, d, u) ==
    /\ op_pc = "idle"
    /\ Enter("get_full_match_history_with_time", r, d, u, "page")

(* The offset a page request of get_match_history carries: params (lines   *)
(* 272-276) holds count, startTime and endTime and never a start, and the  *)
(* start_index of get_full_match_history_with_time (line 396) is written   *)
(* and never read, so every request asks for the page at the API's default *)
(* offset.                                                                 *)
StartParam == 0

(* The position in the player's history of the i-th id of the page that    *)
(* was asked for with the offset start.                                    *)
PageId(start, i) == start + i

(* get_match_history returned n match ids or raised; the request it made   *)
(* is recorded.                                                            *)
PageReturned(n, u) ==
    /\ op = "get_full_match_history_with_time"
    /\ op_pc = "page"
    /\ pc = "idle"
    /\ page_repeated' = (page_repeated \/ StartParam \in page_starts)
    /\ page_starts' = page_starts \cup {StartParam}
    /\ UNCHANGED <<detail_ids, detail_repeated, match_set>>
    /\ IF result # "ok"
       THEN Raise(Raised(result), TRUE)
       ELSE IF n = 0
       THEN /\ Return
            /\ page_len' = 0
            /\ UNCHANGED <<next_id, all_matches, call_failed>>
       ELSE /\ StartCall(0, u)
            /\ op_pc' = "detail"
            /\ page_len' = n
            /\ next_id' = 0
            /\ UNCHANGED <<op, op_result, region_ok, all_matches, call_failed>>

(* Indexes of a page's ids before which the upstream may change how it    *)
(* answers; it may also change before every page.                          *)
SwitchPoints == {batch_size \div 2}

(* A page is taken for the last one, whatever its length.                  *)
ShortPage_Never == FALSE

(* len(match_ids) < batch_size                                             *)
ShortPage == page_len < batch_size

(* get_match_details of match_ids[next_id] returned or raised; what it     *)
(* raised is logged and the loop goes on.                                  *)
DetailReturned(u) ==
    /\ op = "get_full_match_history_with_time"
    /\ op_pc = "detail"
    /\ pc = "idle"
    /\ LET id == PageId(StartParam, next_id)
       IN  /\ detail_repeated' = (detail_repeated \/ id \in detail_ids)
           /\ detail_ids' = detail_ids \cup {id}
           /\ match_set' = IF result = "ok" THEN match_set \cup {id}
                           ELSE match_set
           /\ UNCHANGED <<page_starts, page_repeated>>
    /\ LET ok      == result = "ok"
           fetched == IF ok THEN all_matches + 1 ELSE all_matches
           pause   == IF ok THEN DetailPause ELSE 0
       IN  /\ all_matches' = fetched
           /\ call_failed' = (call_failed \/ ~ok)
           /\ next_id' = next_id + 1
           /\ UNCHANGED <<op, region_ok, page_len>>
           /\ IF next_id + 1 < page_len
              THEN /\ StartCall(pause, IF (next_id + 1) \in SwitchPoints
                                        THEN u ELSE upstream)
                   /\ UNCHANGED <<op_pc, op_result>>
              ELSE IF ShortPage \/ fetched >= match_limit
              THEN /\ op_pc' = "idle"
                   /\ op_result' = "returned"
                   /\ UNCHANGED upstream
                   /\ UNCHANGED pipelineVars
              ELSE /\ StartCall(pause, u)
                   /\ op_pc' = "page"
                   /\ UNCHANGED op_result

DownOutcomes == {"404", "4xx"}

(* The upstream answers at once: 200 while it is up, an error otherwise.   *)
AnswerOp ==
    \/ upstream = "up" /\ Respond("200", 0, -1, 0, TRUE, TRUE)
    \/ upstream = "down" /\ \E o \in DownOutcomes : Respond(o, 0, -1, 0, TRUE, TRUE)

(* Callers running the operations one after another on one client.         *)
NextOps ==
    \/ (\E r \in BOOLEAN, d \in OpIdleTimes, u \in Upstreams :
           get_summoner_by_riot_id(r, d, u)) /\ UNCHANGED callerVars
    \/ (\E u \in Upstreams : AccountReturned(u)) /\ UNCHANGED callerVars
    \/ SummonerReturned /\ UNCHANGED callerVars
    \/ (\E r \in BOOLEAN, d \in OpIdleTimes, u \in Upstreams :
           get_match_history(r, d, u)) /\ UNCHANGED callerVars
    \/ (\E n \in PageLengths : MatchHistoryReturned(n)) /\ UNCHANGED callerVars
    \/ (\E r \in BOOLEAN, d \in OpIdleTimes, u \in Upstreams :
           get_match_details(r, d, u)) /\ UNCHANGED callerVars
    \/ MatchDetailsReturned /\ UNCHANGED callerVars
    \/ (\E r \in BOOLEAN, d \in OpIdleTimes, u \in Upstreams :
           get_full_match_history_with_time(r, d, u)) /\ UNCHANGED callerVars
    \/ (\E n \in PageLengths, u \in Upstreams : PageReturned(n, u))
           /\ UNCHANGED callerVars
    \/ (\E u \in Upstreams : DetailReturned(u)) /\ UNCHANGED callerVars
    \/ (\E ok \in BOOLEAN : _check_circuit_breaker(ok)) /\ UNCHANGED outerVars
    \/ Dispatch /\ UNCHANGED outerVars
    \/ AnswerOp /\ UNCHANGED outerVars

SpecOps == InitStatic /\ [][NextOps]_vars

(* get_full_match_history_with_time alone, with the scheduling the code    *)
(* has: every _make_request it started ends, and the loops go on with what *)
(* it returned or raised. How the upstream answers is left open.           *)
NextHistory ==
    \/ (\E r \in BOOLEAN, d \in OpIdleTimes, u \in Upstreams :
           get_full_match_history_with_time(r, d, u)) /\ UNCHANGED callerVars
    \/ (\E n \in PageLengths, u \in Upstreams : PageReturned(n, u))
           /\ UNCHANGED callerVars
    \/ (\E u \in Upstreams : DetailReturned(u)) /\ UNCHANGED callerVars
    \/ (\E ok \in BOOLEAN : _check_circuit_breaker(ok)) /\ UNCHANGED outerVars
    \/ Dispatch /\ UNCHANGED outerVars
    \/ AnswerOp /\ UNCHANGED outerVars

LiveHistory ==
    /\ InitStatic
    /\ [][NextHistory]_vars
    /\ WF_vars((\E n \in PageLengths, u \in Upstreams : PageReturned(n, u))
                   /\ UNCHANGED callerVars)
    /\ WF_vars((\E u \in Upstreams : DetailReturned(u)) /\ UNCHANGED callerVars)
    /\ WF_vars((\E ok \in BOOLEAN : _check_circuit_breaker(ok))
                   /\ UNCHANGED outerVars)
    /\ WF_vars(Dispatch /\ UNCHANGED outerVars)
    /\ WF_vars(AnswerOp /\ UNCHANGED outerVars)

---------------------------------------------------------------------------
(* get_summoner_by_name and the data fetcher's handler, which calls it.    *)

(* The summoner name: without '#', 'GameName#TagLine', or with a '#' that  *)
(* does not split into two non-empty parts.                                *)
NameForms == {"plain", "riot_id", "malformed"}

(* A malformed Riot ID is refused before the region is looked at; every    *)
(* other name goes to get_summoner_by_riot_id.                             *)
get_summoner_by_name(form, r, d, u) ==
    /\ op_pc = "idle"
    /\ IF form = "malformed"
       THEN /\ Begin("get_summoner_by_name", r)
            /\ op_pc' = "idle"
            /\ op_result' = "RiotAPIError"
            /\ UNCHANGED <<upstream>>
            /\ UNCHANGED pipelineVars
       ELSE Enter("get_summoner_by_riot_id", r, d, u, "account")

Requests == [well_formed : BOOLEAN, region_ok : BOOLEAN]

(* format_lambda_response(status, {"error": error, ...})                   *)
format_lambda_response(status, error) ==
    /\ h_pc' = "idle"
    /\ h_status' = status
    /\ h_error' = error

(* utils.validate_region: its list holds the keys of REGION_TO_REGIONAL.   *)
validate_region(req) == req.region_ok

(* The body of a response: its "status", and its "match_count" if it has   *)
(* that key.                                                               *)
Body(status, match_count) == [status |-> status, match_count |-> match_count]

(* update_item with ':progress' in its values, one call after another:    *)
(* some call stores less than the value it replaces.                       *)
Decreases(old, writes) ==
    \E i \in DOMAIN writes :
        writes[i] < (IF i = 1 THEN old ELSE writes[i - 1])

(* The job's progress after the updates of one step.                       *)
SetProgress(old, writes) ==
    /\ progress' = writes[Len(writes)]
    /\ lowered' = (lowered \/ Decreases(old, writes))

(* lambda_client.invoke(InvocationType='Event'): the invocation is queued, *)
(* the call raises, or the function name is not configured and nothing is  *)
(* called. The handler invokes itself by context.function_name.            *)
SelfInvokes == {"queued", "raised"}

Invokes == SelfInvokes \cup {"not_configured"}

(* summoner.puuid as the account lookup gave it.                           *)
Puuids == {1, 2}

(* handler, up to its call of get_summoner_by_name. The jobs table answers *)
(* every call. A request that is refused has no job. The job is a new item *)
(* (create_processing_job: 'pending', progress 0), then 'fetching', 10.    *)
(* What is recorded of an earlier request's job is dropped; the raw bucket *)
(* keeps its objects.                                                      *)
handler(req, form, d, u) ==
    /\ h_pc = "idle"
    /\ op_pc = "idle"
    /\ p_pc = "idle"
    /\ request' = req
    /\ h_body' = Body("none", <<>>)
    /\ bg_pc' = "none"
    /\ bg_matches' = <<>>
    /\ s3_puts' = 0
    /\ job_puuid' = 0
    /\ proc_queued' = FALSE
    /\ lowered' = FALSE
    /\ p_status' = 0
    /\ p_summoner' = 0
    /\ p_writes' = <<>>
    /\ stats_of' = <<>>
    /\ UNCHANGED <<bucket, p_pc>>
    /\ IF ~req.well_formed
       THEN /\ format_lambda_response(400, "INVALID_REQUEST")
            /\ job_status' = "none"
            /\ progress' = 0
            /\ UNCHANGED <<pipelineVars, opVars>>
       ELSE IF ~validate_region(req)
       THEN /\ format_lambda_response(400, "INVALID_REGION")
            /\ job_status' = "none"
            /\ progress' = 0
            /\ UNCHANGED <<pipelineVars, opVars>>
       ELSE /\ job_status' = "fetching"
            /\ progress' = 10
            /\ h_pc' = "lookup"
            /\ h_status' = 0
            /\ h_error' = "none"
            /\ get_summoner_by_name(form, TRUE, d, u)

(* get_summoner_by_name returned or raised: the rest of the handler. After *)
(* a lookup that returned, the handler invokes itself asynchronously       *)
(* (InvocationType 'Event') and answers at once; an invoke that raises is  *)
(* logged and the answer is the same.                                      *)
HandlerLookupDone(p, inv) ==
    /\ h_pc = "lookup"
    /\ op_pc = "idle"
    /\ UNCHANGED <<pipelineVars, opVars, request, bg_matches, s3_puts>>
    /\ UNCHANGED <<bucket, proc_queued, procVars>>
    /\ CASE op_result = "returned" ->
              /\ job_status' = "processing"
              /\ SetProgress(progress, <<30, 30>>)
              /\ job_puuid' = p
              /\ bg_pc' = (IF inv = "queued" THEN "queued" ELSE "none")
              /\ h_body' = Body("processing", <<>>)
              /\ format_lambda_response(200, "none")
         [] op_result = "SummonerNotFound" ->
              /\ job_status' = "failed"
              /\ UNCHANGED <<bg_pc, h_body, progress, lowered, job_puuid>>
              /\ format_lambda_response(404, "SUMMONER_NOT_FOUND")
         [] OTHER ->
              /\ job_status' = "failed"
              /\ UNCHANGED <<bg_pc, h_body, progress, lowered, job_puuid>>
              /\ format_lambda_response(503, "RIOT_API_ERROR")

MaxFetched == 2

(* What get_full_match_history gives the background invocation: <<>> when  *)
(* it raises, else <<the number of matches>>.                              *)
Fetches == {<<>>} \cup {<<n>> : n \in 0..MaxFetched}

MaxStamp == 1

(* int(time.time()) of a put_object: later than every object's in the      *)
(* bucket, up to the horizon.                                              *)
Stamp ==
    LET used == {k[2] : k \in bucket}
        t == IF used = {} THEN 1
             ELSE 1 + CHOOSE m \in used : \A n \in used : n <= m
    IN  IF t > MaxStamp THEN MaxStamp ELSE t

(* utils.generate_s3_key(summoner_id, "raw-matches", timestamp): the key   *)
(* "raw-matches/{summoner_id}/{year}/{month:02d}/{timestamp}.json", held   *)
(* as its two varying parts in the order they have in the string.          *)
generate_s3_key(summoner_id, timestamp) == <<summoner_id, timestamp>>

(* handle_background_processing: the invocation the handler queued, run by *)
(* the Lambda service in an execution environment of its own, so with a    *)
(* client of its own. Its return value goes to the Lambda service, not to  *)
(* the requester. The data processor is invoked only after the raw data    *)
(* was stored, and an invoke that raises is logged.                        *)
handle_background_processing(f, inv) ==
    /\ bg_pc = "queued"
    /\ bg_pc' = "done"
    /\ bg_matches' = f
    /\ IF f = <<>>
       THEN /\ job_status' = "failed"
            /\ SetProgress(progress, <<50>>)
            /\ UNCHANGED <<s3_puts, bucket, proc_queued>>
       ELSE IF f[1] = 0
       THEN /\ job_status' = "completed"
            /\ SetProgress(progress, <<50, 100>>)
            /\ UNCHANGED <<s3_puts, bucket, proc_queued>>
       ELSE /\ job_status' = "processing"
            /\ SetProgress(progress, <<50, 70, 80>>)
            /\ s3_puts' = s3_puts + 1
            /\ bucket' = bucket \cup {generate_s3_key(job_puuid, Stamp)}
            /\ proc_queued' = (inv = "queued")
    /\ UNCHANGED <<pipelineVars, opVars, h_pc, h_status, h_error, request,
                   h_body, job_puuid, procVars>>

(* The handler and direct callers of the lookups, one after another on one *)
(* client. Every request is for the same summoner, the Lambda service      *)
(* queues the handler's invocation of itself, and no data processor is     *)
(* configured.                                                             *)
NextFetch ==
    \/ (\E req \in Requests, form \in NameForms, d \in OpIdleTimes, u \in Upstreams :
           handler(req, form, d, u))
           /\ UNCHANGED <<statVars, calcVars, trendVars, sharedVars>>
    \/ HandlerLookupDone(1, "queued")
           /\ UNCHANGED <<statVars, calcVars, trendVars, sharedVars>>
    \/ (\E f \in Fetches : handle_background_processing(f, "not_configured"))
           /\ UNCHANGED <<statVars, calcVars, trendVars, sharedVars>>
    \/ /\ h_pc = "idle"
       /\ \E form \in NameForms, r \in BOOLEAN, d \in OpIdleTimes, u \in Upstreams :
              get_summoner_by_name(form, r, d, u)
       /\ UNCHANGED callerVars
    \/ (\E u \in Upstreams : AccountReturned(u)) /\ UNCHANGED callerVars
    \/ SummonerReturned /\ UNCHANGED callerVars
    \/ /\ h_pc = "idle"
       /\ \E r \in BOOLEAN, d \in OpIdleTimes, u \in Upstreams :
              get_match_history(r, d, u)
       /\ UNCHANGED callerVars
    \/ (\E n \in PageLengths : MatchHistoryReturned(n)) /\ UNCHANGED callerVars
    \/ /\ h_pc = "idle"
       /\ \E r \in BOOLEAN, d \in OpIdleTimes, u \in Upstreams :
              get_match_details(r, d, u)
       /\ UNCHANGED callerVars
    \/ MatchDetailsReturned /\ UNCHANGED callerVars
    \/ (\E ok \in BOOLEAN : _check_circuit_breaker(ok)) /\ UNCHANGED outerVars
    \/ Dispatch /\ UNCHANGED outerVars
    \/ AnswerOp /\ UNCHANGED outerVars

SpecFetch == InitStatic /\ [][NextFetch]_vars

---------------------------------------------------------------------------
(* lambdas/data_processor.py: the handler that turns the stored raw data   *)
(* of a job into its statistics.                                           *)

(* The order of two keys as strings: "raw-matches/{summoner_id}/..." puts  *)
(* the summoner first, then year, month and timestamp. Summoner ids are    *)
(* numbered in the order of their strings.                                 *)
KeyBefore(a, b) == a[1] < b[1] \/ (a[1] = b[1] /\ a[2] < b[2])

(* sorted(keys)[-1]                                                        *)
latest_key(keys) == CHOOSE k \in keys : \A j \in keys : j = k \/ KeyBefore(j, k)

(* s3_client.list_objects(bucket, "raw-matches/{summoner_id}/")            *)
list_objects(summoner_id) == {k \in bucket : k[1] = summoner_id}

(* load_matches_from_s3: <<>> when the summoner has no object, else <<the  *)
(* key of the object it reads>>.                                           *)
load_matches_from_s3(summoner_id) ==
    LET object_keys == list_objects(summoner_id)
    IN  IF object_keys = {} THEN <<>> ELSE <<latest_key(object_keys)>>

(* The event of an invocation: the payload the background invocation sends *)
(* (session_id, job_id, ... at top level, no "body"), a "body" with the    *)
(* session_id and job_id of the request's job, or a "body" whose job_id is *)
(* not in the jobs table.                                                  *)
ProcessorEvents == {"payload", "body", "unknown_job"}

(* What no step of the data processor changes.                             *)
procFrame == <<pipelineVars, opVars, h_pc, h_status, h_error, request,
               statVars, calcVars, trendVars, sharedVars,
               h_body, bg_pc, bg_matches, s3_puts, job_puuid, bucket>>

(* handler of data_processor.py, up to the update that sets 'processing'.  *)
(* The queued invocation carries the background's payload; any other event *)
(* is sent by a caller once the raw data is stored and the job waits for   *)
(* the processor. ProcessRequest needs session_id and job_id, which        *)
(* event.get("body", "{}") does not give for the background's payload.     *)
data_processor_handler(ev) ==
    /\ p_pc = "idle"
    /\ IF ev = "payload"
       THEN /\ proc_queued
            /\ proc_queued' = FALSE
            /\ p_status' = 400
            /\ UNCHANGED <<job_status, progress, lowered, p_pc, p_summoner,
                           p_writes, stats_of>>
       ELSE /\ bg_pc = "done"
            /\ job_status = "processing"
            /\ UNCHANGED <<proc_queued, stats_of>>
            /\ IF ev = "unknown_job"
               THEN /\ p_status' = 404
                    /\ UNCHANGED <<job_status, progress, lowered, p_pc,
                                   p_summoner, p_writes>>
               ELSE /\ job_status' = "processing"
                    /\ SetProgress(progress, <<20>>)
                    /\ p_pc' = "listing"
                    /\ p_status' = 0
                    /\ p_summoner' = 0
                    /\ p_writes' = <<"processing">>
    /\ UNCHANGED procFrame

(* What S3 gives the run: a call raises, the object read is empty, or it   *)
(* holds matches.                                                          *)
LoadOutcomes == {"raises", "empty", "matches"}

(* The summoner is read off the last key under "raw-matches/", then that   *)
(* summoner's latest object is loaded; with matches progress becomes 50.   *)
ProcessorLoad(o) ==
    /\ p_pc = "listing"
    /\ UNCHANGED <<job_status, proc_queued, p_status, p_writes, stats_of>>
    /\ IF o = "raises" \/ bucket = {}
       THEN /\ p_pc' = "raised"
            /\ UNCHANGED <<progress, lowered, p_summoner>>
       ELSE LET summoner_id == latest_key(bucket)[1]
                loaded == load_matches_from_s3(summoner_id)
            IN  /\ p_summoner' = loaded[1][1]
                /\ IF o = "empty"
                   THEN /\ p_pc' = "default"
                        /\ UNCHANGED <<progress, lowered>>
                   ELSE /\ p_pc' = "loaded"
                        /\ SetProgress(progress, <<50>>)
    /\ UNCHANGED procFrame

(* process_match_statistics returns (progress 80) or raises.               *)
ProcessorCompute(ok) ==
    /\ p_pc = "loaded"
    /\ UNCHANGED <<job_status, proc_queued, p_status, p_summoner, p_writes,
                   stats_of>>
    /\ IF ok
       THEN /\ p_pc' = "computed"
            /\ SetProgress(progress, <<80>>)
       ELSE /\ p_pc' = "raised"
            /\ UNCHANGED <<progress, lowered>>
    /\ UNCHANGED procFrame

(* put_item of the statistics, computed or default, into the player-stats  *)
(* table: it is stored or the call raises.                                 *)
ProcessorStore(ok) ==
    /\ p_pc \in {"computed", "default"}
    /\ UNCHANGED <<job_status, progress, lowered, proc_queued, p_status,
                   p_summoner>>
    /\ IF ok
       THEN /\ p_pc' = "stored"
            /\ stats_of' = <<p_summoner>>
            /\ p_writes' = Append(p_writes, "stats")
       ELSE /\ p_pc' = "raised"
            /\ UNCHANGED <<stats_of, p_writes>>
    /\ UNCHANGED procFrame

(* The job set to 'completed' as soon as the statistics are there to be    *)
(* stored, without the put_item.                                           *)
ProcessorComplete_Early ==
    /\ p_pc \in {"computed", "default"}
    /\ job_status' = "completed"
    /\ SetProgress(progress, <<100>>)
    /\ p_writes' = Append(p_writes, "completed")
    /\ p_status' = 200
    /\ p_pc' = "idle"
    /\ UNCHANGED <<proc_queued, p_summoner, stats_of>>
    /\ UNCHANGED procFrame

(* The invocation of the insight generator is only logged when it fails;   *)
(* then the job is set to 'completed', 100, and the handler answers 200.   *)
ProcessorComplete ==
    /\ p_pc = "stored"
    /\ job_status' = "completed"
    /\ SetProgress(progress, <<100>>)
    /\ p_writes' = Append(p_writes, "completed")
    /\ p_status' = 200
    /\ p_pc' = "idle"
    /\ UNCHANGED <<proc_queued, p_summoner, stats_of>>
    /\ UNCHANGED procFrame

(* The inner 'except Exception' without its update of the job.             *)
ProcessorExcept_NoUpdate ==
    /\ p_pc = "raised"
    /\ p_pc' = "reraised"
    /\ UNCHANGED <<job_status, p_writes>>
    /\ UNCHANGED <<progress, lowered, proc_queued, p_status, p_summoner,
                   stats_of>>
    /\ UNCHANGED procFrame

(* The inner 'except Exception': the job is set to 'failed' with the error *)
(* message, and the exception is raised again.                             *)
ProcessorExcept ==
    /\ p_pc = "raised"
    /\ p_pc' = "reraised"
    /\ job_status' = "failed"
    /\ p_writes' = Append(p_writes, "failed")
    /\ UNCHANGED <<progress, lowered, proc_queued, p_status, p_summoner,
                   stats_of>>
    /\ UNCHANGED procFrame

(* The outer 'except Exception': 500 INTERNAL_ERROR.                       *)
ProcessorOuterExcept ==
    /\ p_pc = "reraised"
    /\ p_pc' = "idle"
    /\ p_status' = 500
    /\ UNCHANGED <<job_status, progress, lowered, proc_queued, p_summoner,
                   p_writes, stats_of>>
    /\ UNCHANGED procFrame

(* jobs, one after another: the data fetcher's handler, its background     *)
(* invocation and the data processor, with the client calls of the lookup. *)
NextJob ==
    \/ /\ job_status \in {"none", "completed", "failed"}
       /\ \E req \in Requests, form \in NameForms, d \in OpIdleTimes, u \in Upstreams :
              handler(req, form, d, u)
       /\ UNCHANGED <<statVars, calcVars, trendVars, sharedVars>>
    \/ (\E p \in Puuids, inv \in SelfInvokes : HandlerLookupDone(p, inv))
           /\ UNCHANGED <<statVars, calcVars, trendVars, sharedVars>>
    \/ (\E f \in Fetches, inv \in Invokes : handle_background_processing(f, inv))
           /\ UNCHANGED <<statVars, calcVars, trendVars, sharedVars>>
    \/ data_processor_handler("payload")
    \/ (\E ev \in ProcessorEvents \ {"payload"} : data_processor_handler(ev))
    \/ (\E o \in LoadOutcomes : ProcessorLoad(o))
    \/ (\E ok \in BOOLEAN : ProcessorCompute(ok))
    \/ (\E ok \in BOOLEAN : ProcessorStore(ok))
    \/ ProcessorComplete
    \/ ProcessorExcept
    \/ ProcessorOuterExcept
    \/ (\E u \in Upstreams : AccountReturned(u)) /\ UNCHANGED callerVars
    \/ SummonerReturned /\ UNCHANGED callerVars
    \/ (\E ok \in BOOLEAN : _check_circuit_breaker(ok)) /\ UNCHANGED outerVars
    \/ Dispatch /\ UNCHANGED outerVars
    \/ AnswerOp /\ UNCHANGED outerVars

SpecJob == InitStatic /\ [][NextJob]_vars

(* The scheduling the code and the Lambda service give: a handler that     *)
(* started runs to its end, and an invocation that was queued is run. New  *)
(* requests and events sent by other callers may or may not come.          *)
LiveJob ==
    /\ InitStatic
    /\ [][NextJob]_vars
    /\ WF_vars((\E p \in Puuids, inv \in SelfInvokes : HandlerLookupDone(p, inv))
                   /\ UNCHANGED <<statVars, calcVars, trendVars, sharedVars>>)
    /\ WF_vars((\E f \in Fetches, inv \in Invokes : handle_background_processing(f, inv))
                   /\ UNCHANGED <<statVars, calcVars, trendVars, sharedVars>>)
    /\ WF_vars(data_processor_handler("payload"))
    /\ WF_vars(\E o \in LoadOutcomes : ProcessorLoad(o))
    /\ WF_vars(\E ok \in BOOLEAN : ProcessorCompute(ok))
    /\ WF_vars(\E ok \in BOOLEAN : ProcessorStore(ok))
    /\ WF_vars(ProcessorComplete)
    /\ WF_vars(ProcessorExcept)
    /\ WF_vars(ProcessorOuterExcept)
    /\ WF_vars((\E u \in Upstreams : AccountReturned(u)) /\ UNCHANGED callerVars)
    /\ WF_vars(SummonerReturned /\ UNCHANGED callerVars)
    /\ WF_vars((\E ok \in BOOLEAN : _check_circuit_breaker(ok))
                   /\ UNCHANGED outerVars)
    /\ WF_vars(Dispatch /\ UNCHANGED outerVars)
    /\ WF_vars(AnswerOp /\ UNCHANGED outerVars)

---------------------------------------------------------------------------
(* shared/utils.py: the statistics of a list of matches. A float with two  *)
(* decimals is held as a whole number of hundredths.                       *)

(* x / y of two ints: <<>> stands for ZeroDivisionError.                   *)
ZeroDivisionError == <<>>

(* round(n / d, 2) without its rounding step: the hundredths cut off.      *)
Round2_Truncated(n, d) == (100 * n) \div d

(* round(n / d, 2) in hundredths, d > 0. The float n / d is the double     *)
(* nearest to the quotient and round() takes the hundredth nearest to that *)
(* double, the even one when the double lies half way. For n and d within  *)
(* the bounds used here a quotient that lies half way between two          *)
(* hundredths is a multiple of 1/8 and so a double itself.                 *)
Round2(n, d) ==
    LET q == (100 * n) \div d
        r == (100 * n) % d
    IN  IF 2 * r > d THEN q + 1
        ELSE IF 2 * r < d THEN q
        ELSE IF q % 2 = 0 THEN q ELSE q + 1

(* The division of line 26 or 33 and its rounding.                         *)
RoundedQuotient(n, d) ==
    IF d = 0 THEN ZeroDivisionError ELSE <<Round2(n, d)>>

(* calculate_kda without the test of deaths == 0.                          *)
calculate_kda_Unguarded(kills, deaths, assists) ==
    RoundedQuotient(kills + assists, deaths)

calculate_kda(kills, deaths, assists) ==
    IF deaths = 0
    THEN IF kills + assists > 0 THEN <<100 * (kills + assists)>> ELSE <<0>>
    ELSE RoundedQuotient(kills + assists, deaths)

calculate_win_rate(wins, total_games) ==
    IF total_games = 0 THEN <<0>> ELSE RoundedQuotient(100 * wins, total_games)

EpochYear == 1970

month_names == <<"January", "February", "March", "April", "May", "June",
                 "July", "August", "September", "October", "November",
                 "December">>

(* A timestamp is held in whole months since the epoch (UTC).              *)
get_month_year_from_timestamp(timestamp) ==
    [month |-> month_names[(timestamp % 12) + 1],
     year  |-> EpochYear + (timestamp \div 12)]

(* Place of a month name in the order of Python's str comparison.          *)
StrRank(name) ==
    CASE name = "April" -> 1     [] name = "August" -> 2
      [] name = "December" -> 3  [] name = "February" -> 4
      [] name = "January" -> 5   [] name = "July" -> 6
      [] name = "June" -> 7      [] name = "March" -> 8
      [] name = "May" -> 9       [] name = "November" -> 10
      [] name = "October" -> 11  [] name = "September" -> 12

(* list.sort(key = ...): a stable sort. before[i][j] tells whether the key *)
(* of seq[i] comes before the key of seq[j].                               *)
StableSort(seq, before) ==
    LET pos(i) == 1 + Cardinality({j \in DOMAIN seq :
                         \/ before[j][i]
                         \/ (~before[i][j] /\ j < i)})
    IN  [n \in DOMAIN seq |-> seq[CHOOSE i \in DOMAIN seq : pos(i) = n]]

(* A max that returns the last of the items with the greatest key.         *)
FirstMax_Last(seq, keys) ==
    seq[CHOOSE i \in DOMAIN seq :
            /\ \A j \in DOMAIN seq : keys[j] <= keys[i]
            /\ \A j \in DOMAIN seq : j > i => keys[j] < keys[i]]

(* max(seq, key = ...) of a list that is not empty: the first of the items *)
(* with the greatest key. keys[i] is the key of seq[i].                    *)
FirstMax(seq, keys) ==
    seq[CHOOSE i \in DOMAIN seq :
            /\ \A j \in DOMAIN seq : keys[j] <= keys[i]
            /\ \A j \in DOMAIN seq : j < i => keys[j] < keys[i]]

(* Python's None, as a value that is no champion.                          *)
None == [none |-> TRUE]

(* max(seq, key = ...) if seq else None                                    *)
MaxOrNone(seq, keys) == IF seq = <<>> THEN None ELSE FirstMax(seq, keys)

(* key = lambda x: x.games_played, reverse = True                          *)
MoreGames(a, b) == a.games_played > b.games_played

(* key = lambda x: (x.year, x.month): a tuple of an int and a str.         *)
YearThenMonthName(a, b) ==
    \/ a.year < b.year
    \/ (a.year = b.year /\ StrRank(a.month) < StrRank(b.month))

Target == "target-puuid"     \* summoner_puuid

(* The inputs: participants, lists of them, matches.                       *)
Participant(id, champ, w, k, d, a) ==
    [summoner_id |-> id, champion_id |-> champ, win |-> w,
     kills |-> k, deaths |-> d, assists |-> a]

TargetParticipants ==
    {Participant(Target, 1, TRUE, 3, 0, 2), Participant(Target, 1, FALSE, 1, 2, 0),
     Participant(Target, 2, TRUE, 8, 3, 12), Participant(Target, 2, FALSE, 5, 7, 8)}

OtherParticipant == Participant("other", 1, TRUE, 5, 1, 1)

ParticipantLists ==
    {<<OtherParticipant>>, <<Participant(Target, 1, TRUE, 3, 0, 2)>>}
        \cup {<<OtherParticipant, p>> : p \in TargetParticipants}

(* December 2023, January 2024 and April 2024.                             *)
GameCreations == {647, 648, 651}

RiotMatches == [participants : ParticipantLists, game_creation : GameCreations]

MaxMatches == 3

MatchLists == UNION {[1..n -> RiotMatches] : n \in 0..MaxMatches}

(* A search that takes a participant whatever its id is.                   *)
FindParticipant_Any(participants) == <<participants[Len(participants)]>>

(* The loop of lines 97-101 takes the first participant that has the id,   *)
(* <<>> if there is none.                                                  *)
FindParticipant(participants) ==
    LET found == {i \in DOMAIN participants :
                     participants[i].summoner_id = Target}
    IN  IF found = {} THEN <<>>
        ELSE <<participants[CHOOSE i \in found : \A j \in found : i <= j]>>

(* The '+=' lines without the one for the deaths.                          *)
AddTo_NoDeaths(data, p) ==
    [data EXCEPT !.games = @ + 1, !.wins = @ + (IF p.win THEN 1 ELSE 0),
                 !.kills = @ + p.kills, !.assists = @ + p.assists]

(* The '+=' lines of one match on a dict entry.                            *)
AddTo(data, p) ==
    [data EXCEPT !.games = @ + 1, !.wins = @ + (IF p.win THEN 1 ELSE 0),
                 !.kills = @ + p.kills, !.deaths = @ + p.deaths,
                 !.assists = @ + p.assists]

(* A dict whose entries take their first match only.                      *)
Update_FirstOnly(dict, fresh, p) ==
    IF \E i \in DOMAIN dict : dict[i].key = fresh.key
    THEN dict
    ELSE Append(dict, AddTo(fresh, p))

(* A dict in insertion order: 'if key not in d: d[key] = fresh', then the  *)
(* entry is added to.                                                      *)
Update(dict, fresh, p) ==
    IF \E i \in DOMAIN dict : dict[i].key = fresh.key
    THEN [i \in DOMAIN dict |->
             IF dict[i].key = fresh.key THEN AddTo(dict[i], p) ELSE dict[i]]
    ELSE Append(dict, AddTo(fresh, p))

NoGames == [games |-> 0, wins |-> 0, kills |-> 0, deaths |-> 0, assists |-> 0]

(* The body of 'for i, match in enumerate(matches)'.                       *)
ProcessMatch(acc, match) ==
    LET found == FindParticipant(match.participants)
    IN  IF found = <<>> THEN acc
        ELSE LET p  == found[1]
                 my == get_month_year_from_timestamp(match.game_creation)
             IN  [totals |-> AddTo(acc.totals, p),
                  champion_stats |->
                      Update(acc.champion_stats,
                             [key |-> p.champion_id] @@ NoGames, p),
                  monthly_stats |->
                      Update(acc.monthly_stats,
                             [key |-> <<my.year, my.month>>, month |-> my.month,
                              year |-> my.year] @@ NoGames, p)]

RECURSIVE ProcessMatches(_, _)
ProcessMatches(acc, ms) ==
    IF ms = <<>> THEN acc
    ELSE ProcessMatches(ProcessMatch(acc, Head(ms)), Tail(ms))

(* total_games left at len(matches).                                       *)
actual_games_All(ms) == Len(ms)

(* sum(1 for match in matches if any(p.summoner_id == summoner_puuid ...)) *)
actual_games(ms) ==
    Cardinality({i \in DOMAIN ms :
        \E j \in DOMAIN ms[i].participants :
            ms[i].participants[j].summoner_id = Target})

ChampionStat(data) ==
    [champion_id |-> data.key, games_played |-> data.games, wins |-> data.wins,
     losses |-> data.games - data.wins,
     win_rate |-> calculate_win_rate(data.wins, data.games),
     total_kills |-> data.kills, total_deaths |-> data.deaths,
     total_assists |-> data.assists,
     avg_kda |-> calculate_kda(data.kills, data.deaths, data.assists)]

MonthlyData(data) ==
    [month |-> data.month, year |-> data.year, games |-> data.games,
     wins |-> data.wins, losses |-> data.games - data.wins,
     win_rate |-> calculate_win_rate(data.wins, data.games),
     total_kills |-> data.kills, total_deaths |-> data.deaths,
     total_assists |-> data.assists,
     avg_kda |-> calculate_kda(data.kills, data.deaths, data.assists)]

(* calculate_improvement_trend and calculate_consistency_score, functions  *)
(* of the list of the months' avg_kda. A KDA is in hundredths, the trend   *)
(* in thousandths, the score in tenths.                                    *)

(* round(num / den, ndigits) as a whole number of units, den > 0, where    *)
(* num / den is the quotient in units: the nearest whole number. When the  *)
(* quotient lies half way, the float that round() is given lies on one     *)
(* side or the other of it, by the rounding errors of the arithmetic       *)
(* before; both neighbours are possible results.                           *)
Nearest(num, den) ==
    LET q == num \div den
        r == num % den
    IN  IF 2 * r > den THEN {q + 1}
        ELSE IF 2 * r < den THEN {q}
        ELSE {q, q + 1}

(* sum(...) of a list of ints.                                             *)
RECURSIVE SumSeq(_)
SumSeq(seq) == IF seq = <<>> THEN 0 ELSE Head(seq) + SumSeq(Tail(seq))

(* x_values = list(range(len(monthly_data)))                               *)
x_values(ys) == [i \in DOMAIN ys |-> i - 1]

(* A slope with the two products of its numerator exchanged.               *)
calculate_improvement_trend_Swapped(ys) ==
    IF Len(ys) < 2 THEN {0}
    ELSE LET xs == x_values(ys)
             n == Len(ys)
             sum_x == SumSeq(xs)
             sum_y == SumSeq(ys)
             sum_xy == SumSeq([i \in DOMAIN ys |-> xs[i] * ys[i]])
             sum_x2 == SumSeq([i \in DOMAIN ys |-> xs[i] * xs[i]])
             denominator == n * sum_x2 - sum_x * sum_x
         IN  IF denominator = 0 THEN {0}
             ELSE Nearest(10 * (sum_x * sum_y - n * sum_xy), denominator)

(* The results calculate_improvement_trend can give: the slope is          *)
(* (n * sum_xy - sum_x * sum_y) / denominator hundredths per month, that   *)
(* is ten times as many thousandths.                                       *)
calculate_improvement_trend(ys) ==
    IF Len(ys) < 2 THEN {0}
    ELSE LET xs == x_values(ys)
             n == Len(ys)
             sum_x == SumSeq(xs)
             sum_y == SumSeq(ys)
             sum_xy == SumSeq([i \in DOMAIN ys |-> xs[i] * ys[i]])
             sum_x2 == SumSeq([i \in DOMAIN ys |-> xs[i] * xs[i]])
             denominator == n * sum_x2 - sum_x * sum_x
         IN  IF denominator = 0 THEN {0}
             ELSE Nearest(10 * (n * sum_xy - sum_x * sum_y), denominator)

(* n * n times the variance, in squared hundredths:                        *)
(* sum((kda - mean) ** 2) / n = (n * sum(kda ** 2) - sum(kda) ** 2) / n^2  *)
VarianceTimesN2(ys) ==
    Len(ys) * SumSeq([i \in DOMAIN ys |-> ys[i] * ys[i]]) - SumSeq(ys) * SumSeq(ys)

(* A score without max(0, ...).                                            *)
calculate_consistency_score_Unclamped(ys) ==
    IF Len(ys) < 2 THEN {1000}
    ELSE LET n == Len(ys)
             v == VarianceTimesN2(ys)
         IN  IF v = 0 THEN {1000}
             ELSE Nearest(1000 * 50 * n * n - v, 50 * n * n)

(* The results calculate_consistency_score can give. 100 - variance * 20   *)
(* is (1000 * 50 * n^2 - v) / (50 * n^2) tenths, v being n^2 times the     *)
(* variance in squared hundredths.                                         *)
calculate_consistency_score(ys) ==
    IF Len(ys) < 2 THEN {1000}
    ELSE LET n == Len(ys)
             v == VarianceTimesN2(ys)
         IN  IF v = 0 THEN {1000}
             ELSE IF 1000 * 50 * n * n - v <= 0 THEN {0}
             ELSE Nearest(1000 * 50 * n * n - v, 50 * n * n)

(* What process_match_statistics(ms, Target) raises or returns: the totals,*)
(* the two sorted lists of the report and the trend of the sorted months.   *)
(* improvement_trend is the set of the values the rounding can give.       *)
ProcessedStats(ms) ==
    IF ms = <<>> THEN [error |-> "ValueError", report |-> <<>>]
    ELSE
    LET acc == ProcessMatches([totals |-> NoGames, champion_stats |-> <<>>,
                               monthly_stats |-> <<>>], ms)
        total_games == actual_games(ms)
        champion_stat_objects == [i \in DOMAIN acc.champion_stats |->
                                     ChampionStat(acc.champion_stats[i])]
        monthly_data_objects == [i \in DOMAIN acc.monthly_stats |->
                                    MonthlyData(acc.monthly_stats[i])]
        sorted_champions ==
            StableSort(champion_stat_objects,
                       [i \in DOMAIN champion_stat_objects |->
                           [j \in DOMAIN champion_stat_objects |->
                               MoreGames(champion_stat_objects[i],
                                         champion_stat_objects[j])]])
        sorted_months ==
            StableSort(monthly_data_objects,
                       [i \in DOMAIN monthly_data_objects |->
                           [j \in DOMAIN monthly_data_objects |->
                               YearThenMonthName(monthly_data_objects[i],
                                                 monthly_data_objects[j])]])
    IN  IF total_games = 0 THEN [error |-> "ValueError", report |-> <<>>]
        ELSE [error |-> "none",
              report |-> <<[
                total_games |-> total_games,
                total_wins |-> acc.totals.wins,
                total_losses |-> total_games - acc.totals.wins,
                win_rate |-> calculate_win_rate(acc.totals.wins, total_games),
                total_kills |-> acc.totals.kills,
                total_deaths |-> acc.totals.deaths,
                total_assists |-> acc.totals.assists,
                avg_kda |-> calculate_kda(acc.totals.kills, acc.totals.deaths,
                                          acc.totals.assists),
                champion_stats |-> sorted_champions,
                most_played_champion |->
                    IF sorted_champions = <<>> THEN None
                    ELSE sorted_champions[1],
                highest_winrate_champion |->
                    MaxOrNone(sorted_champions,
                             [i \in DOMAIN sorted_champions |->
                                 sorted_champions[i].win_rate[1]]),
                best_kda_champion |->
                    MaxOrNone(sorted_champions,
                             [i \in DOMAIN sorted_champions |->
                                 sorted_champions[i].avg_kda[1]]),
                monthly_trends |-> sorted_months,
                improvement_trend |->
                    calculate_improvement_trend(
                        [i \in DOMAIN sorted_months |->
                            sorted_months[i].avg_kda[1]])]>>]

(* The caller runs the function at most MaxRuns times on its list.         *)
MaxRuns == 2

(* A function that empties the list it is given.                           *)
MatchesAfter_Consumed(ms) == <<>>

(* The list after a run: the function only reads it and its matches.       *)
MatchesAfter(ms) == ms

process_match_statistics ==
    /\ stats_runs < MaxRuns
    /\ stats_runs' = stats_runs + 1
    /\ stats_pc' = "done"
    /\ stats_error' = ProcessedStats(matches).error
    /\ report' = ProcessedStats(matches).report
    /\ matches' = MatchesAfter(matches)
    /\ UNCHANGED <<pipelineVars, opVars, hVars, calcVars, trendVars, bgVars,
                   sharedVars>>

(* process_match_statistics called on any list of matches.                 *)
InitStatsInput ==
    /\ InitPipeline /\ static_api_key = TRUE
    /\ InitOps
    /\ InitHandler
    /\ matches \in MatchLists
    /\ stats_pc = "ready"
    /\ stats_runs = 0
    /\ stats_error = "none"
    /\ report = <<>>
    /\ InitCalc
    /\ InitTrend
    /\ InitBackground
    /\ InitShared

SpecStats == InitStatsInput /\ [][process_match_statistics]_vars

(* calculate_kda and calculate_win_rate, each called once on any small     *)
(* non-negative arguments.                                                 *)
MaxStat == 4

MaxDeaths == 8

MaxGames == 8

CalcArgs == [kills : 0..MaxStat, deaths : 0..MaxDeaths, assists : 0..MaxStat,
             wins : 0..MaxGames, total_games : 0..MaxGames]

call_calculate_kda ==
    /\ "kda" \notin calc_done
    /\ calc_done' = calc_done \cup {"kda"}
    /\ kda' = calculate_kda(calc_args.kills, calc_args.deaths, calc_args.assists)
    /\ UNCHANGED <<calc_args, win_rate>>
    /\ UNCHANGED <<pipelineVars, opVars, hVars, statVars, trendVars, bgVars,
                   sharedVars>>

call_calculate_win_rate ==
    /\ "win_rate" \notin calc_done
    /\ calc_done' = calc_done \cup {"win_rate"}
    /\ win_rate' = calculate_win_rate(calc_args.wins, calc_args.total_games)
    /\ UNCHANGED <<calc_args, kda>>
    /\ UNCHANGED <<pipelineVars, opVars, hVars, statVars, trendVars, bgVars,
                   sharedVars>>

InitCalcInput ==
    /\ InitPipeline /\ static_api_key = TRUE
    /\ InitOps
    /\ InitHandler
    /\ InitStats
    /\ calc_args \in CalcArgs
    /\ calc_done = {}
    /\ kda = <<>>
    /\ win_rate = <<>>
    /\ InitTrend
    /\ InitBackground
    /\ InitShared

NextCalc ==
    \/ call_calculate_kda
    \/ call_calculate_win_rate

SpecCalc == InitCalcInput /\ [][NextCalc]_vars

---------------------------------------------------------------------------
(* The two functions of the monthly KDA values, called on their own.       *)

MaxMonths == 4

(* 0.0, 0.33, 1.0, 1.01, 2.5, 3.3, 5.0 and 10.0                            *)
KdaValues == {0, 33, 100, 101, 250, 330, 500, 1000}

KdaLists == UNION {[1..n -> KdaValues] : n \in 0..MaxMonths}

call_calculate_improvement_trend ==
    /\ "trend" \notin trend_done
    /\ trend_done' = trend_done \cup {"trend"}
    /\ improvement_trend' \in calculate_improvement_trend(kda_values)
    /\ UNCHANGED <<kda_values, consistency_score>>
    /\ UNCHANGED <<pipelineVars, opVars, hVars, statVars, calcVars, bgVars,
                   sharedVars>>

call_calculate_consistency_score ==
    /\ "consistency" \notin trend_done
    /\ trend_done' = trend_done \cup {"consistency"}
    /\ consistency_score' \in calculate_consistency_score(kda_values)
    /\ UNCHANGED <<kda_values, improvement_trend>>
    /\ UNCHANGED <<pipelineVars, opVars, hVars, statVars, calcVars, bgVars,
                   sharedVars>>

InitTrendInput ==
    /\ InitPipeline /\ static_api_key = TRUE
    /\ InitOps
    /\ InitHandler
    /\ InitStats
    /\ InitCalc
    /\ kda_values \in KdaLists
    /\ trend_done = {}
    /\ improvement_trend = 0
    /\ consistency_score = 0
    /\ InitBackground
    /\ InitShared

NextTrend ==
    \/ call_calculate_improvement_trend
    \/ call_calculate_consistency_score

SpecTrend == InitTrendInput /\ [][NextTrend]_vars

---------------------------------------------------------------------------
(* Two threads call _make_request once each on the client that             *)
(* get_riot_client hands to every caller. The client has no lock: a step   *)
(* below is what one thread does between two points at which the           *)
(* interpreter may switch threads, and the steps of the two threads        *)
(* interleave freely. A thread that sleeps or waits for the upstream does  *)
(* not move until its time has passed; time passes only while a thread     *)
(* waits. The upstream answers 200 or 400 here, so the adapter never       *)
(* retries.                                                                *)

(* What the call leaves untouched of the client and of its history.        *)
pipelineRest == <<static_api_key, cached_api_key, api_key_cache_time,
                  secret_version, pc, attempt, header_key, result, dispatched,
                  last_outcome, consec, fifth_at, opened_at, entry, slept,
                  last_header, refreshes, store_calls,
                  only429, retries_left, sent,
                  last_answer>>

SharedAnswers == {"200", "4xx"}

Runs(c, at) == t_pc[c] = at /\ t_wake[c] = 0

Goto(c, to) == t_pc' = [t_pc EXCEPT ![c] = to]

(* Line 119: _check_circuit_breaker.                                       *)
T_check_circuit_breaker(c) ==
    /\ Runs(c, "start")
    /\ IF CircuitIsOpen
       THEN /\ Goto(c, "raised")
            /\ UNCHANGED <<failure_count, circuit_open_until, handled>>
       ELSE /\ Goto(c, "limit")
            /\ IF circuit_open_until # Unset
               THEN /\ failure_count' = 0
                    /\ circuit_open_until' = Unset
                    /\ handled' = 0
               ELSE UNCHANGED <<failure_count, circuit_open_until, handled>>
    /\ UNCHANGED <<last_request_time, last_dispatch, gap, pipelineRest,
                   t_attempt, t_count, t_wake, opened_after, opVars, soloVars>>

(* Lines 129-131: the rate limiter reads last_request_time and sleeps.     *)
T_rate_limit(c) ==
    /\ Runs(c, "limit")
    /\ Goto(c, "get")
    /\ t_wake' = [t_wake EXCEPT ![c] = RateLimitSleep]
    /\ UNCHANGED <<last_request_time, failure_count, circuit_open_until,
                   last_dispatch, gap, pipelineRest, t_attempt, t_count,
                   handled, opened_after, opVars, soloVars>>

(* Line 134: session.get sends the request; the answer takes lat ticks.    *)
T_session_get(c, lat) ==
    /\ Runs(c, "get")
    /\ Goto(c, "inflight")
    /\ t_wake' = [t_wake EXCEPT ![c] = lat]
    /\ gap' = IF last_dispatch = NoTime THEN -1 ELSE now - last_dispatch[1]
    /\ last_dispatch' = At(now)
    /\ UNCHANGED <<last_request_time, failure_count, circuit_open_until,
                   pipelineRest, t_attempt, t_count, handled, opened_after,
                   opVars, soloVars>>

(* Lines 135-156: the answer is in. A 200 resets failure_count and the     *)
(* call returns; a 400 makes raise_for_status raise an HTTPError.          *)
T_response(c, a) ==
    /\ Runs(c, "inflight")
    /\ last_request_time' = now
    /\ IF a = "200"
       THEN /\ failure_count' = 0
            /\ handled' = 0
            /\ Goto(c, "returned")
       ELSE /\ UNCHANGED <<failure_count, handled>>
            /\ Goto(c, "load")
    /\ UNCHANGED <<circuit_open_until, last_dispatch, gap, pipelineRest,
                   t_attempt, t_count, t_wake, opened_after, opVars, soloVars>>

(* Line 160, 'self.failure_count += 1': the attribute is loaded ...        *)
T_load_failure_count(c) ==
    /\ Runs(c, "load")
    /\ Goto(c, "store")
    /\ t_count' = [t_count EXCEPT ![c] = failure_count]
    /\ UNCHANGED <<last_request_time, failure_count, circuit_open_until,
                   last_dispatch, gap, pipelineRest, t_attempt, t_wake,
                   handled, opened_after, opVars, soloVars>>

(* ... and what was loaded, plus one, is stored.                           *)
T_store_failure_count(c) ==
    /\ Runs(c, "store")
    /\ Goto(c, "test")
    /\ failure_count' = t_count[c] + 1
    /\ handled' = handled + 1
    /\ UNCHANGED <<last_request_time, circuit_open_until, last_dispatch, gap,
                   pipelineRest, t_attempt, t_count, t_wake, opened_after,
                   opVars, soloVars>>

(* 2 ** attempt + time.time() % 1                                          *)
backoff(a, j) == Pow2(a) * TicksPerSecond + j

(* Lines 163-172: the circuit opens at the threshold; the last attempt     *)
(* raises, the others sleep the backoff and go round the loop.             *)
T_test_threshold(c, j) ==
    /\ Runs(c, "test")
    /\ IF failure_count >= max_failures
       THEN /\ circuit_open_until' = now + circuit_timeout
            /\ opened_after' = IF opened_after = <<>> THEN <<handled>>
                               ELSE opened_after
       ELSE UNCHANGED <<circuit_open_until, opened_after>>
    /\ IF t_attempt[c] = max_retries - 1
       THEN /\ Goto(c, "raised")
            /\ UNCHANGED <<t_attempt, t_wake>>
       ELSE /\ Goto(c, "limit")
            /\ t_attempt' = [t_attempt EXCEPT ![c] = @ + 1]
            /\ t_wake' = [t_wake EXCEPT ![c] = backoff(t_attempt[c], j)]
    /\ UNCHANGED <<last_request_time, failure_count, last_dispatch, gap,
                   pipelineRest, t_count, handled, opVars, soloVars>>

(* One tick passes while a thread sleeps or waits for its answer.          *)
T_tick ==
    /\ \E c \in Callers : t_wake[c] > 0
    /\ t_wake' = [c \in Callers |-> Max(t_wake[c] - 1, 0)]
    /\ last_request_time' = Past(last_request_time, 1, MinRequestInterval)
    /\ circuit_open_until' = Later(circuit_open_until, 1)
    /\ last_dispatch' = PastAt(last_dispatch, 1, RequestHorizon)
    /\ UNCHANGED <<failure_count, gap, pipelineRest, t_pc, t_attempt, t_count,
                   handled, opened_after, opVars, soloVars>>

NextShared ==
    \/ \E c \in Callers : T_check_circuit_breaker(c)
    \/ \E c \in Callers : T_rate_limit(c)
    \/ \E c \in Callers, lat \in Latencies : T_session_get(c, lat)
    \/ \E c \in Callers, a \in SharedAnswers : T_response(c, a)
    \/ \E c \in Callers : T_load_failure_count(c)
    \/ \E c \in Callers : T_store_failure_count(c)
    \/ \E c \in Callers, j \in Jitters : T_test_threshold(c, j)
    \/ T_tick

SpecShared == InitStatic /\ [][NextShared]_vars

---------------------------------------------------------------------------
(* Claims about the request pipeline.                                      *)

(* C1: while the circuit is open (now is before circuit_open_until) a call *)
(* to _make_request ends at once with the circuit-open error, dispatches   *)
(* no request and leaves failure_count and circuit_open_until as they were. *)
C1_OpenCircuitRejects ==
    [][(pc = "check" /\ circuit_open_until # Unset /\ circuit_open_until > now)
         => /\ pc' = "idle"
            /\ result' = "CircuitOpen"
            /\ dispatched' = 0
            /\ sent' = 0
            /\ last_dispatch' = last_dispatch
            /\ failure_count' = failure_count
            /\ circuit_open_until' = circuit_open_until]_vars

C1_Witness ==
    pc = "idle" /\ result = "CircuitOpen" /\ circuit_open_until > now

C3_AfterCooldown ==
    (entry.after_cooldown /\ pc = "idle") =>
        /\ result # "CircuitOpen"
        /\ dispatched >= 1
        /\ result = "ok" => (failure_count = 0 /\ circuit_open_until = Unset)

C3_Witness ==
    entry.after_cooldown /\ pc = "idle" /\ result = "ok" /\ dispatched = 3

(* C4: any two consecutive dispatches of one client are at least 1.2 s     *)
(* (6 ticks) apart, whatever the outcome of the earlier one.               *)
C4_MinGap == gap = -1 \/ gap >= MinRequestInterval

(* C5: a call sends at most max_retries (3) HTTP requests, and a call that *)
(* began comes to an end (a result or an error).                           *)
C5_BoundedAttempts ==
    /\ [](sent <= max_retries)
    /\ (pc # "idle") ~> (pc = "idle")

(* C6: an upstream answer of 429 leaves failure_count and                  *)
(* circuit_open_until untouched (the circuit is neither opened, extended   *)
(* nor reset by it), and as long as every answer was a 429 the circuit     *)
(* never opened and no failure was counted.                                *)
C6_429NotCounted ==
    /\ [](only429 => (failure_count = 0 /\ circuit_open_until = Unset))
    /\ [][(pc = "inflight" /\ last_answer' = "429")
            => /\ failure_count' = failure_count
               /\ (circuit_open_until' = Unset) <=> (circuit_open_until = Unset)
               /\ circuit_open_until' <= circuit_open_until]_vars

(* C7: after an answer of 429 that carries Retry-After the call has slept  *)
(* that time and goes on to send the request again, unless the 429         *)
(* answered the last permitted attempt (index 2); only then does           *)
(* RateLimited reach the caller.                                           *)
C7_RateLimitedOnlyLast ==
    /\ result = "RateLimited" =>
           (pc = "idle" /\ last_answer = "429" /\ attempt = max_retries - 1)
    /\ (last_answer = "429" /\ last_header # -1) =>
           /\ slept = last_header * TicksPerSecond
           /\ \/ pc \in {"attempt", "inflight"}
              \/ pc = "idle" /\ result = "RateLimited"

C9_NotFoundImmediate ==
    [][(pc = "inflight" /\ last_outcome' = "404")
         => /\ pc' = "idle"
            /\ result' = "NotFound"
            /\ failure_count' = failure_count
            /\ (circuit_open_until' = Unset) <=> (circuit_open_until = Unset)
            /\ circuit_open_until' <= circuit_open_until]_vars

C9_Witness ==
    pc = "idle" /\ last_outcome = "404" /\ result = "NotFound" /\ failure_count = 4

(* C10: an operation that returned normally had none of its network calls  *)
(* fail; whatever failed was raised to the caller as a typed error.        *)
C10_FailuresSurfaced ==
    /\ op_result \in {"none", "returned", "RiotAPIError", "RateLimitExceeded",
                      "SummonerNotFound"}
    /\ (op_pc = "idle" /\ op_result = "returned") => ~call_failed

---------------------------------------------------------------------------
(* Claims about the lookups and the data fetcher's handler.                *)

(* C11: a call whose region is not a supported one is refused before any   *)
(* request is sent. A client operation called with such a region ends in   *)
(* that very step with a RiotAPIError and leaves the request pipeline as   *)
(* it was; the handler invoked with such a region answers 400 in that very *)
(* step, creates no job, calls no client operation and, when the payload   *)
(* is otherwise well formed, names the error INVALID_REGION.               *)
C11_RegionRejectedFirst ==
    [][/\ (op_pc = "idle" /\ opVars' # opVars /\ ~region_ok')
            => /\ UNCHANGED pipelineVars
               /\ op_pc' = "idle"
               /\ op_result' = "RiotAPIError"
       /\ (h_pc = "idle" /\ hVars' # hVars /\ ~request'.region_ok)
            => /\ UNCHANGED <<pipelineVars, opVars>>
               /\ h_pc' = "idle"
               /\ h_status' = 400
               /\ job_status' = "none"
               /\ (request'.well_formed => h_error' = "INVALID_REGION")]_vars

(* A direct call of get_match_details and then an invocation of the        *)
(* handler were both refused for their region.                             *)
C11_Witness ==
    /\ op = "get_match_details"
    /\ ~region_ok
    /\ op_pc = "idle"
    /\ op_result = "RiotAPIError"
    /\ ~request.region_ok
    /\ h_status = 400
    /\ h_error = "INVALID_REGION"

(* C12: when the upstream answers a lookup of get_summoner_by_name with    *)
(* 404, the operation raises SummonerNotFound, and the handler that called *)
(* it answers 404 SUMMONER_NOT_FOUND and marks the job failed.             *)
C12_NotFoundTold ==
    [][/\ (/\ op = "get_summoner_by_riot_id"
           /\ op_pc # "idle"
           /\ op_pc' = "idle"
           /\ result = "NotFound")
            => op_result' = "SummonerNotFound"
       /\ (/\ op = "get_summoner_by_riot_id"
           /\ h_pc = "lookup"
           /\ h_pc' = "idle"
           /\ result = "NotFound")
            => /\ h_status' = 404
               /\ h_error' = "SUMMONER_NOT_FOUND"
               /\ job_status' = "failed"]_vars

---------------------------------------------------------------------------
(* Claims about the full match history.                                    *)

(* C13: get_full_match_history_with_time asks for no further page once a   *)
(* page held fewer than batch_size ids: when the last id of such a page    *)
(* has been handled, or when the page is empty, the operation returns in   *)
(* that step with the matches fetched so far and starts no request.        *)
C13_ShortPageEnds ==
    [][/\ (/\ op = "get_full_match_history_with_time"
           /\ op_pc = "detail"
           /\ pc = "idle"
           /\ page_len < batch_size
           /\ next_id + 1 = page_len)
            => /\ op_pc' = "idle"
               /\ op_result' = "returned"
               /\ all_matches' = all_matches + (IF result = "ok" THEN 1 ELSE 0)
               /\ UNCHANGED pipelineVars
       /\ (/\ op = "get_full_match_history_with_time"
           /\ op_pc = "page"
           /\ pc = "idle"
           /\ result = "ok"
           /\ page_len' = 0)
            => /\ op_pc' = "idle"
               /\ op_result' = "returned"
               /\ all_matches' = all_matches
               /\ UNCHANGED pipelineVars
       /\ (/\ op = "get_full_match_history_with_time"
           /\ op_pc = "detail"
           /\ page_len < batch_size)
            => op_pc' # "page"]_vars

(* A full page and then a page of one id, all fetched, were returned.      *)
C13_Witness ==
    /\ op = "get_full_match_history_with_time"
    /\ op_pc = "idle"
    /\ op_result = "returned"
    /\ page_len = 1
    /\ all_matches = batch_size + 1

(* C14: the list get_full_match_history_with_time returns holds at most    *)
(* match_limit matches, also when full pages keep coming and some match    *)
(* details could not be fetched.                                           *)
C14_AtMostLimit ==
    (/\ op = "get_full_match_history_with_time"
     /\ op_pc = "idle"
     /\ op_result = "returned")
        => all_matches <= match_limit

---------------------------------------------------------------------------
(* Claims about process_match_statistics.                                  *)

(* C15: only the matches whose participants include the target player are *)
(* counted: total_games is their number, total_wins the number of them the *)
(* target won, and the outcome is the one the function has on the list     *)
(* with every other match taken out, so that a match without the target    *)
(* adds to no total, no champion and no month.                             *)
C15_OnlyTargetMatches ==
    stats_pc = "done" =>
        LET HasTarget(m) == \E j \in DOMAIN m.participants :
                                m.participants[j].summoner_id = Target
            Won(m) == \E j \in DOMAIN m.participants :
                          /\ m.participants[j].summoner_id = Target
                          /\ m.participants[j].win
            with == SelectSeq(matches, HasTarget)
        IN  /\ stats_error = ProcessedStats(with).error
            /\ report = ProcessedStats(with).report
            /\ report # <<>> =>
                 /\ report[1].total_games = Len(with)
                 /\ report[1].total_wins = Len(SelectSeq(with, Won))

(* A report over three matches of which one lacks the target.              *)
C15_Witness ==
    /\ stats_pc = "done"
    /\ Len(matches) = 3
    /\ report # <<>>
    /\ report[1].total_games = 2

(* C16: process_match_statistics raises its error and returns no report    *)
(* when the list is empty or no match of it holds the target player, and   *)
(* returns a report in every other case.                                   *)
C16_FailsIffNoMatch ==
    stats_pc = "done" =>
        LET none == \A i \in DOMAIN matches :
                        \A j \in DOMAIN matches[i].participants :
                            matches[i].participants[j].summoner_id # Target
        IN  IF none
            THEN stats_error = "ValueError" /\ report = <<>>
            ELSE stats_error = "none" /\ report # <<>>

(* Three matches, none with the target, were refused.                      *)
C16_Witness ==
    /\ stats_pc = "done"
    /\ Len(matches) = 3
    /\ stats_error = "ValueError"
    /\ report = <<>>

(* C17: the monthly_trends of a report are in calendar order, ascending by *)
(* year and then by the month of the year.                                 *)
C17_MonthsInCalendarOrder ==
    (stats_pc = "done" /\ report # <<>>) =>
        LET trends == report[1].monthly_trends
            MonthOfYear(name) == CHOOSE k \in 1..12 : month_names[k] = name
        IN  \A i, j \in DOMAIN trends :
                i < j =>
                    \/ trends[i].year < trends[j].year
                    \/ /\ trends[i].year = trends[j].year
                       /\ MonthOfYear(trends[i].month) < MonthOfYear(trends[j].month)

(* C18: a report is consistent: wins and losses add up to the games, in    *)
(* the totals and in every champion and month, and the games, wins, kills, *)
(* deaths and assists of the champions, and of the months, add up to the   *)
(* totals.                                                                 *)
C18_ReportConsistent ==
    (stats_pc = "done" /\ report # <<>>) =>
        LET r == report[1]
            Sum(seq, Get(_)) ==
                LET S[i \in 0..Len(seq)] ==
                        IF i = 0 THEN 0 ELSE S[i - 1] + Get(seq[i])
                IN  S[Len(seq)]
            Games(x) == x.games
            Played(x) == x.games_played
            Wins(x) == x.wins
            Kills(x) == x.total_kills
            Deaths(x) == x.total_deaths
            Assists(x) == x.total_assists
        IN  /\ r.total_wins + r.total_losses = r.total_games
            /\ r.total_wins >= 0 /\ r.total_losses >= 0
            /\ \A i \in DOMAIN r.champion_stats :
                   r.champion_stats[i].wins + r.champion_stats[i].losses
                       = r.champion_stats[i].games_played
            /\ \A i \in DOMAIN r.monthly_trends :
                   r.monthly_trends[i].wins + r.monthly_trends[i].losses
                       = r.monthly_trends[i].games
            /\ Sum(r.champion_stats, Played) = r.total_games
            /\ Sum(r.champion_stats, Wins) = r.total_wins
            /\ Sum(r.champion_stats, Kills) = r.total_kills
            /\ Sum(r.champion_stats, Deaths) = r.total_deaths
            /\ Sum(r.champion_stats, Assists) = r.total_assists
            /\ Sum(r.monthly_trends, Games) = r.total_games
            /\ Sum(r.monthly_trends, Wins) = r.total_wins
            /\ Sum(r.monthly_trends, Kills) = r.total_kills
            /\ Sum(r.monthly_trends, Deaths) = r.total_deaths
            /\ Sum(r.monthly_trends, Assists) = r.total_assists

(* A report with two champions, one of them played twice, over two months. *)
C18_Witness ==
    /\ stats_pc = "done"
    /\ report # <<>>
    /\ report[1].total_games = 3
    /\ Len(report[1].champion_stats) = 2
    /\ Len(report[1].monthly_trends) = 2

---------------------------------------------------------------------------
(* Claims about calculate_kda and calculate_win_rate. Results are in       *)
(* hundredths.                                                             *)

(* C19: for non-negative arguments calculate_kda raises nothing; with      *)
(* deaths > 0 it returns a number of hundredths that is within half a      *)
(* hundredth of (kills + assists) / deaths; with deaths = 0 it returns     *)
(* kills + assists, which is 0 when both are 0.                            *)
C19_KdaFormula ==
    "kda" \in calc_done =>
        LET n == calc_args.kills + calc_args.assists
            d == calc_args.deaths
        IN  /\ kda # ZeroDivisionError
            /\ d = 0 => kda[1] = 100 * n
            /\ d > 0 => /\ 2 * (100 * n - kda[1] * d) <= d
                        /\ 2 * (kda[1] * d - 100 * n) <= d

(* calculate_kda(1, 3, 1) returned 0.67, rounded up from 0.666...          *)
C19_Witness ==
    /\ "kda" \in calc_done
    /\ calc_args.kills = 1 /\ calc_args.assists = 1 /\ calc_args.deaths = 3
    /\ kda = <<67>>

(* C20: calculate_win_rate raises nothing; it returns 0 when total_games   *)
(* is 0 and otherwise a number of hundredths within half a hundredth of    *)
(* 100 * wins / total_games; for 0 <= wins <= total_games the result lies  *)
(* between 0 and 100.                                                      *)
C20_WinRateFormula ==
    "win_rate" \in calc_done =>
        LET w == calc_args.wins
            g == calc_args.total_games
        IN  /\ win_rate # ZeroDivisionError
            /\ g = 0 => win_rate[1] = 0
            /\ g > 0 => /\ 2 * (10000 * w - win_rate[1] * g) <= g
                        /\ 2 * (win_rate[1] * g - 10000 * w) <= g
            /\ w <= g => (win_rate[1] >= 0 /\ win_rate[1] <= 10000)

(* calculate_win_rate(2, 3) returned 66.67.                                *)
C20_Witness ==
    /\ "win_rate" \in calc_done
    /\ calc_args.wins = 2 /\ calc_args.total_games = 3
    /\ win_rate = <<6667>>

---------------------------------------------------------------------------
(* Further claims about the report of process_match_statistics.            *)

(* C21: the totals of a report are the sums over the matches that hold the *)
(* target player, and win_rate and avg_kda are computed from these totals: *)
(* win_rate is within half a hundredth of 100 * total_wins / total_games,  *)
(* avg_kda within half a hundredth of (total_kills + total_assists) /      *)
(* total_deaths, or kills + assists when no death was counted.             *)
C21_RatesFromTotals ==
    (stats_pc = "done" /\ report # <<>>) =>
        LET r == report[1]
            Mine(m) == {j \in DOMAIN m.participants :
                           m.participants[j].summoner_id = Target}
            First(m) == m.participants[CHOOSE j \in Mine(m) :
                                           \A k \in Mine(m) : j <= k]
            Sum(Get(_)) ==
                LET S[i \in 0..Len(matches)] ==
                        IF i = 0 THEN 0
                        ELSE S[i - 1] + (IF Mine(matches[i]) = {} THEN 0
                                         ELSE Get(First(matches[i])))
                IN  S[Len(matches)]
            One(p) == 1
            Win(p) == IF p.win THEN 1 ELSE 0
            Kills(p) == p.kills
            Deaths(p) == p.deaths
            Assists(p) == p.assists
            n == r.total_kills + r.total_assists
        IN  /\ r.total_games = Sum(One)
            /\ r.total_wins = Sum(Win)
            /\ r.total_kills = Sum(Kills)
            /\ r.total_deaths = Sum(Deaths)
            /\ r.total_assists = Sum(Assists)
            /\ Len(r.win_rate) = 1
            /\ 2 * (10000 * r.total_wins - r.win_rate[1] * r.total_games)
                   <= r.total_games
            /\ 2 * (r.win_rate[1] * r.total_games - 10000 * r.total_wins)
                   <= r.total_games
            /\ Len(r.avg_kda) = 1
            /\ r.total_deaths = 0 => r.avg_kda[1] = 100 * n
            /\ r.total_deaths > 0 =>
                   /\ 2 * (100 * n - r.avg_kda[1] * r.total_deaths) <= r.total_deaths
                   /\ 2 * (r.avg_kda[1] * r.total_deaths - 100 * n) <= r.total_deaths

(* A win with 8/3/12 and a loss with 5/7/8: two games, one win, win rate   *)
(* 50.0 and KDA 3.3, where the mean of the two matches' KDA is 4.26.       *)
C21_Witness ==
    /\ stats_pc = "done"
    /\ Len(matches) = 2
    /\ \E j \in DOMAIN matches[1].participants :
           matches[1].participants[j] = Participant(Target, 2, TRUE, 8, 3, 12)
    /\ \E j \in DOMAIN matches[2].participants :
           matches[2].participants[j] = Participant(Target, 2, FALSE, 5, 7, 8)
    /\ report # <<>>
    /\ report[1].total_games = 2
    /\ report[1].total_wins = 1
    /\ report[1].win_rate = <<5000>>
    /\ report[1].avg_kda = <<330>>

C23_TopChampions ==
    (stats_pc = "done" /\ report # <<>>) =>
        LET r == report[1]
            cs == r.champion_stats
            FirstWithMax(e, Get(_)) ==
                \E i \in DOMAIN cs :
                    /\ cs[i] = e
                    /\ \A j \in DOMAIN cs : Get(cs[j]) <= Get(e)
                    /\ \A j \in DOMAIN cs : j < i => Get(cs[j]) < Get(e)
            Played(x) == x.games_played
            WinRate(x) == x.win_rate[1]
            Kda(x) == x.avg_kda[1]
        IN  /\ \A i, j \in DOMAIN cs : i < j => cs[i].games_played >= cs[j].games_played
            /\ FirstWithMax(r.most_played_champion, Played)
            /\ FirstWithMax(r.highest_winrate_champion, WinRate)
            /\ FirstWithMax(r.best_kda_champion, Kda)

(* Two champions with a win rate of 100 each: the one played twice stands  *)
(* first and is the one with the highest win rate, although the other was  *)
(* met first in the matches.                                               *)
C23_Witness ==
    /\ stats_pc = "done"
    /\ report # <<>>
    /\ Len(report[1].champion_stats) = 2
    /\ report[1].champion_stats[1].win_rate = report[1].champion_stats[2].win_rate
    /\ report[1].champion_stats[1].games_played = 2
    /\ report[1].highest_winrate_champion = report[1].champion_stats[1]
    /\ \E j \in DOMAIN matches[1].participants :
           /\ matches[1].participants[j].summoner_id = Target
           /\ matches[1].participants[j].champion_id
                  = report[1].champion_stats[2].champion_id

---------------------------------------------------------------------------
(* Claims about the functions of the monthly KDA values.                   *)

(* C24: calculate_consistency_score gives 100 for fewer than two months;   *)
(* otherwise it gives, within half a tenth, 100 - 20 * variance where that *)
(* is positive and 0 where it is not; the result is always in [0, 100].    *)
C24_ConsistencyScore ==
    "consistency" \in trend_done =>
        LET n == Len(kda_values)
            Sq(i) == kda_values[i] * kda_values[i]
            S[i \in 0..n] == IF i = 0 THEN 0 ELSE S[i - 1] + kda_values[i]
            Q[i \in 0..n] == IF i = 0 THEN 0 ELSE Q[i - 1] + Sq(i)
            v == n * Q[n] - S[n] * S[n]
            exact == 1000 * 50 * n * n - v
            den == 50 * n * n
        IN  /\ consistency_score >= 0
            /\ consistency_score <= 1000
            /\ n < 2 => consistency_score = 1000
            /\ (n >= 2 /\ exact <= 0) => consistency_score = 0
            /\ (n >= 2 /\ exact > 0) =>
                   /\ 2 * (exact - consistency_score * den) <= den
                   /\ 2 * (consistency_score * den - exact) <= den

(* The months 0.0 and 10.0 have the variance 25 and the score 0; without   *)
(* the clamp it would be -400.                                             *)
C24_Witness ==
    /\ "consistency" \in trend_done
    /\ kda_values = <<0, 1000>>
    /\ consistency_score = 0

(* C25: calculate_improvement_trend gives 0 for fewer than two months;     *)
(* otherwise it gives, within half a thousandth, the least-squares slope   *)
(* of the values over their indexes 0..n-1; the result is positive when    *)
(* the values strictly increase and negative when they strictly decrease.  *)
C25_TrendSlope ==
    "trend" \in trend_done =>
        LET n == Len(kda_values)
            S[i \in 0..n] == IF i = 0 THEN 0 ELSE S[i - 1] + kda_values[i]
            X[i \in 0..n] == IF i = 0 THEN 0 ELSE X[i - 1] + (i - 1)
            XX[i \in 0..n] == IF i = 0 THEN 0 ELSE XX[i - 1] + (i - 1) * (i - 1)
            XY[i \in 0..n] == IF i = 0 THEN 0 ELSE XY[i - 1] + (i - 1) * kda_values[i]
            num == 10 * (n * XY[n] - X[n] * S[n])
            den == n * XX[n] - X[n] * X[n]
        IN  /\ n < 2 => improvement_trend = 0
            /\ n >= 2 =>
                   /\ den > 0
                   /\ 2 * (num - improvement_trend * den) <= den
                   /\ 2 * (improvement_trend * den - num) <= den
                   /\ (\A i \in 1..(n - 1) : kda_values[i] < kda_values[i + 1])
                          => improvement_trend > 0
                   /\ (\A i \in 1..(n - 1) : kda_values[i] > kda_values[i + 1])
                          => improvement_trend < 0

(* The months 1.0, 1.01, 2.5 have the slope 0.75.                          *)
C25_Witness ==
    /\ "trend" \in trend_done
    /\ kda_values = <<100, 101, 250>>
    /\ improvement_trend = 750

(* C26: when the handler answers a valid request whose summoner lookup     *)
(* returned, the response is 200 with status 'completed' and a match_count *)
(* equal to the number of matches fetched, and the raw matches have been   *)
(* written to S3 exactly once by then.                                     *)
C26_CompletedResponse ==
    [][(h_pc = "lookup" /\ h_pc' = "idle" /\ op_result = "returned")
           => /\ h_status' = 200
              /\ h_body'.status = "completed"
              /\ bg_matches' # <<>>
              /\ h_body'.match_count = bg_matches'
              /\ s3_puts' = 1]_vars

(* What the handler does instead: it answers 200 'processing' without a    *)
(* match_count before anything is fetched or stored; the one write to S3   *)
(* is made afterwards by the background invocation.                        *)
C26_Observed ==
    /\ h_status = 200
    /\ h_body = Body("processing", <<>>)
    /\ bg_pc = "done"
    /\ bg_matches = <<1>>
    /\ s3_puts = 1

(* C27: no HTTP request is dispatched while the circuit is open: once the  *)
(* failure count reaches the threshold inside a call of _make_request, the *)
(* remaining attempts of that call are not dispatched.                     *)
C27_NoDispatchWhileOpen ==
    [][(pc = "attempt" /\ pc' = "inflight")
           => ~(circuit_open_until' # Unset /\ circuit_open_until' > now)]_vars

(* What happens instead: the call whose first attempt opened the circuit   *)
(* has sent its second request, with the circuit still open.               *)
C27_Observed ==
    /\ pc = "inflight"
    /\ attempt = 1
    /\ dispatched = 2
    /\ failure_count = max_failures
    /\ CircuitIsOpen

(* C28: after a call of _make_request has returned with a 200 the circuit  *)
(* is closed, so that a call issued immediately afterwards is not refused  *)
(* by _check_circuit_breaker, whatever failures came before.               *)
C28_ClosedAfterSuccess ==
    (pc = "idle" /\ result = "ok") => ~CircuitIsOpen

(* What happens instead: a call returned with a 200 on a later attempt,    *)
(* the failure count is back at 0, and the next call is refused because    *)
(* circuit_open_until still lies ahead.                                    *)
C28_Observed ==
    /\ pc = "idle"
    /\ result = "CircuitOpen"
    /\ failure_count = 0
    /\ consec = 0
    /\ CircuitIsOpen

(* C29: failure_count never exceeds max_failures.                          *)
C29_CountAtMostThreshold == failure_count <= max_failures

(* What happens instead: a call that began with four counted failures      *)
(* failed three times more.                                                *)
C29_Observed ==
    /\ pc = "idle"
    /\ result = "RequestFailed"
    /\ failure_count = max_failures + 2

---------------------------------------------------------------------------
(* Claims about a client shared by two threads.                            *)

(* C30: when two callers use the same client concurrently, consecutive     *)
(* requests are dispatched at least 1.2 s apart, every handled failure is  *)
(* counted exactly once in failure_count (outside the moment between the   *)
(* load and the store of an increment), and the circuit opens after        *)
(* exactly max_failures counted failures.                                  *)
C30_SharedClientSafe ==
    /\ gap = -1 \/ gap >= MinRequestInterval
    /\ (\A c \in Callers : t_pc[c] # "store") => failure_count = handled
    /\ opened_after \in {<<>>, <<max_failures>>}
    /\ (handled >= max_failures /\ \A c \in Callers : t_pc[c] \notin {"store", "test"})
           => circuit_open_until # Unset

(* What happens instead: the two threads ran in step; both calls failed    *)
(* three times, each pair of requests went out at the same moment, each    *)
(* pair of increments stored the same number, and after six failures the   *)
(* count is 3 and the circuit is closed.                                   *)
C30_Observed ==
    /\ \A c \in Callers : t_pc[c] = "raised"
    /\ handled = 2 * max_retries
    /\ failure_count = max_retries
    /\ circuit_open_until = Unset
    /\ gap = 0

---------------------------------------------------------------------------
(* Further claims about the full match history.                            *)

(* C31: every call of get_full_match_history_with_time ends, however the   *)
(* upstream answers.                                                       *)
C31_Terminates ==
    (op = "get_full_match_history_with_time" /\ op_pc # "idle")
        ~> (op_pc = "idle")

(* What can happen instead: a second full page has been returned and not   *)
(* one match of the first has been fetched, while no request failure was   *)
(* counted; from here the same can go on for ever.                         *)
C31_Observed ==
    /\ op = "get_full_match_history_with_time"
    /\ op_pc = "detail"
    /\ next_id = batch_size - 1
    /\ all_matches = 0
    /\ failure_count = 0
    /\ call_failed

(* C32: the page requests of get_full_match_history_with_time advance      *)
(* through the history: no offset is asked for twice, no id has its        *)
(* details fetched twice, and the list returned holds each match at most   *)
(* once.                                                                   *)
C32_PagesAdvance ==
    op = "get_full_match_history_with_time" =>
        /\ ~page_repeated
        /\ ~detail_repeated
        /\ (op_pc = "idle" /\ op_result = "returned")
               => all_matches = Cardinality(match_set)

(* What happens instead: ten times the same page of 100 ids was asked for  *)
(* and fetched, and the 1000 entries returned are 100 matches, ten times   *)
(* each.                                                                   *)
C32_Observed ==
    /\ op = "get_full_match_history_with_time"
    /\ op_pc = "idle"
    /\ op_result = "returned"
    /\ page_starts = {StartParam}
    /\ page_repeated
    /\ detail_repeated
    /\ all_matches = match_limit
    /\ Cardinality(match_set) = batch_size

---------------------------------------------------------------------------
(* Further claims about the credential.                                    *)

(* C33: without a static key the api_key accessor calls the secret store   *)
(* exactly when no key is cached or the cached key is api_key_cache_ttl or *)
(* more old, and otherwise hands out the cached key and leaves the cache   *)
(* alone; the only other store call is the forced refresh of the 403       *)
(* handler on the first attempt; with a static key the store is never      *)
(* called.                                                                 *)
C33_StoreOnlyWhenStale ==
    [][LET calls == IF pc = "idle" THEN 0 ELSE store_calls' - store_calls
           stale == cached_api_key = 0
                        \/ now - api_key_cache_time >= api_key_cache_ttl
           accessor == pc = "check" /\ ~CircuitIsOpen
           forced == /\ pc = "inflight" /\ last_outcome' = "403"
                     /\ attempt = 0 /\ refreshes' = refreshes + 1
       IN  /\ static_api_key => calls = 0
           /\ accessor =>
                  /\ calls = (IF ~static_api_key /\ stale THEN 1 ELSE 0)
                  /\ (~static_api_key /\ ~stale) =>
                         /\ header_key' = cached_api_key
                         /\ UNCHANGED <<cached_api_key, api_key_cache_time>>
           /\ calls > 0 => accessor \/ forced
           /\ forced => calls \in {1, 2}]_vars

(* The store holds a newer key, but the call began within the TTL of the   *)
(* cached one and carries the cached key without having asked the store.   *)
C33_Witness ==
    /\ ~static_api_key
    /\ pc = "attempt"
    /\ attempt = 0
    /\ store_calls = 0
    /\ cached_api_key = 1
    /\ secret_version = 2
    /\ header_key = 1
    /\ api_key_cache_time = 1 - api_key_cache_ttl

---------------------------------------------------------------------------
(* A further claim about process_match_statistics.                         *)

(* C34: when the matches span two or more calendar months and the player's *)
(* KDA of the month strictly increases over calendar time, the report's    *)
(* improvement_trend is positive; when it strictly decreases, negative.    *)
C34_TrendFollowsCalendar ==
    (stats_pc = "done" /\ report # <<>>) =>
        LET trends == report[1].monthly_trends
            MonthOfYear(name) == CHOOSE k \in 1..12 : month_names[k] = name
            Earlier(a, b) ==
                \/ a.year < b.year
                \/ (a.year = b.year /\ MonthOfYear(a.month) < MonthOfYear(b.month))
            Rising == \A i, j \in DOMAIN trends :
                          Earlier(trends[i], trends[j])
                              => trends[i].avg_kda[1] < trends[j].avg_kda[1]
            Falling == \A i, j \in DOMAIN trends :
                           Earlier(trends[i], trends[j])
                               => trends[i].avg_kda[1] > trends[j].avg_kda[1]
        IN  Len(trends) >= 2 =>
                /\ Rising => \A t \in report[1].improvement_trend : t > 0
                /\ Falling => \A t \in report[1].improvement_trend : t < 0

(* What happens instead: a KDA of 0.5 in January 2024 and of 5.0 in April  *)
(* 2024 give the months in the order April, January and a trend of -4.5.   *)
C34_Observed ==
    /\ stats_pc = "done"
    /\ report # <<>>
    /\ Len(report[1].monthly_trends) = 2
    /\ report[1].monthly_trends[1].month = "April"
    /\ report[1].monthly_trends[1].avg_kda = <<500>>
    /\ report[1].monthly_trends[2].month = "January"
    /\ report[1].monthly_trends[2].avg_kda = <<50>>
    /\ report[1].improvement_trend = {-4500}


---------------------------------------------------------------------------
---------------------------------------------------------------------------
---------------------------------------------------------------------------
(* C37: over the life of a job, through the data fetcher's handler, its    *)
(* background invocation and the data processor, the stored progress is    *)
(* within 0..100 and no update stores less than the value it replaces.     *)
C37_ProgressMonotone ==
    /\ progress \in 0..100
    /\ ~lowered

(* The background invocation left the job at 80 and the data processor's   *)
(* first update has put it at 20.                                          *)
C37_Observed ==
    /\ bg_pc = "done"
    /\ p_pc = "listing"
    /\ job_status = "processing"
    /\ progress = 20
    /\ lowered

---------------------------------------------------------------------------
(* C38: every job the data fetcher's handler created reaches 'completed'   *)
(* or 'failed', also when an asynchronous invocation of the next stage     *)
(* raises or the next stage's function name is not configured.             *)
C38_JobFinishes ==
    (job_status \in {"fetching", "processing"})
        ~> (job_status \in {"completed", "failed"})

(* The background invocation stored the raw data and ended, no invocation  *)
(* of the data processor is pending, and the job is still 'processing'.    *)
C38_Observed ==
    /\ h_pc = "idle"
    /\ h_status = 200
    /\ bg_pc = "done"
    /\ bg_matches = <<1>>
    /\ ~proc_queued
    /\ p_pc = "idle"
    /\ p_status = 0
    /\ job_status = "processing"
    /\ progress = 80

---------------------------------------------------------------------------
(* C39: the statistics the data processor stores for a job are computed    *)
(* from the raw data of the summoner the job was created for, whatever     *)
(* other summoners' objects the bucket holds.                              *)
C39_OwnSummoner ==
    (p_writes # <<>> /\ stats_of # <<>>) => stats_of = <<job_puuid>>

(* The job is for summoner 1, the bucket also holds an object of summoner  *)
(* 2, and the completed run stored statistics of summoner 2.               *)
C39_Observed ==
    /\ job_puuid = 1
    /\ bucket = {generate_s3_key(1, 1), generate_s3_key(2, 1)}
    /\ p_status = 200
    /\ job_status = "completed"
    /\ stats_of = <<2>>

===========================================================================
